---- MODULE Spec2Model ----
(***************************************************************************)
(* Model of the storage / concurrency core of project-memory-mcp:          *)
(*   src/src/storage.ts      lock protocol, loadStore, atomicWriteJson,    *)
(*                           withStore                                      *)
(*   src/src/maintenance.ts  compactStoreInPlace, autoCompactStore          *)
(*   src/src/tools.js        the tool handlers that call withStore          *)
(* Each caller is one in-flight withStore call; callers interleave at the  *)
(* await points of the code.                                               *)
(*   Spec       cooperating callers on a healthy filesystem                *)
(*   SpecFault  Spec plus failing reads and writes and dying processes     *)
(*   SpecLoad   Spec plus failing reads, from a store file of any shape    *)
(*   SpecTools  saves, approvals, rejections and pins by callers that wait *)
(*              for the lock as long as it takes                            *)
(*   SpecArchive saves and memory_compact calls whose store write may fail *)
(*   SpecCompact compactStoreInPlace and autoCompactStore applied, one run *)
(*              after the other, to the store a lock holder has loaded     *)
(*   SpecCodec  atomicWriteJson of a store, then loadStore by a reader     *)
(*   SpecIds    saves, memory_propose calls and approvals                   *)
(*   SpecPaths  memory_compact calls by processes whose MEMORY_FILE_PATH    *)
(*              differ, in one project: one lock per memory file, one      *)
(*              archive                                                     *)
(*   SpecRoot   the project root resolved from the projectRoot option, the  *)
(*              environment and the walk up from the working directory      *)
(*   SpecTypes  saves, proposals and approvals with type inputs             *)
(*   SpecTags   normalizeTags applied to a tags argument and to its result  *)
(*   SpecCursor hook runs that load and save the cursor file                *)
(*   SpecLock   acquireLock with every retry sleep timed                    *)
(*   SpecHook   runs of the stop hook: cursor file, withStore, store      *)
(*   SpecAccept withStore on every document that loadStore accepts       *)
(* Time: a retry sleep lasts at least its delay.  A caller's first         *)
(* MaxOnTimeSleeps sleeps may last exactly the delay; any sleep may run    *)
(* late enough to use up the lock timeout.                                 *)
(***************************************************************************)
EXTENDS Integers, Sequences, FiniteSets, TLC

\* ---------------------------------------------------------------- bounds
NumCallers == 2          \* concurrent callers of withStore
MaxCalls == 2            \* withStore calls started in one behaviour
MaxOnTimeSleeps == 1     \* retry sleeps of one acquireLock that take exactly delay ms
MaxFaults == 1           \* I/O failures and crashes in one behaviour
MaxInitItems == 2        \* items in the store file at start
MaxItemsCfg == 2         \* CONFIG.autoCompact.maxItems, scaled down from 400
SummaryMaxEntriesCfg == 2  \* CONFIG.autoCompact.summaryMaxEntries, scaled down from 20
MaxDepth == 2            \* depth of the working directory below the filesystem root
MaxMess == 2             \* values of every kind in front of a run of tags

\* ------------------------------------------------- CONFIG (src/src/config.ts)
lockTimeoutMs == 2500
lockRetryDelayMs == 50
lockRetryBackoffNum == 5     \* lockRetryBackoff = 1.25 = 5/4
lockRetryBackoffDen == 4
maxLockRetryDelayMs == 250
autoCompactEnabled == TRUE
summaryEnabled == TRUE       \* Boolean(CONFIG.autoCompact.summaryTitle)

Callers == 1..NumCallers
NoCaller == 0
\* The process a specification of one process's steps follows.
Writer == CHOOSE p \in Callers : TRUE

Min(a, b) == IF a < b THEN a ELSE b
Max(a, b) == IF a > b THEN a ELSE b

\* ------------------------------------------------------- strings, domain.ts
\* A JavaScript string is the sequence of its characters.  An optional input
\* of a handler is given or left out (undefined).
NoInput == [given |-> FALSE, text |-> <<>>]
Text(str) == [given |-> TRUE, text |-> str]

UpperCase == <<"A", "B", "C", "D", "E", "F", "G", "H", "I", "J", "K", "L", "M",
               "N", "O", "P", "Q", "R", "S", "T", "U", "V", "W", "X", "Y", "Z">>
LowerCase == <<"a", "b", "c", "d", "e", "f", "g", "h", "i", "j", "k", "l", "m",
               "n", "o", "p", "q", "r", "s", "t", "u", "v", "w", "x", "y", "z">>
WhiteSpace == {" ", "\t", "\n"}

\* String.prototype.toLowerCase
toLowerCase(str) ==
  [i \in 1..Len(str) |->
     IF \E k \in 1..Len(UpperCase) : UpperCase[k] = str[i]
       THEN LowerCase[CHOOSE k \in 1..Len(UpperCase) : UpperCase[k] = str[i]]
       ELSE str[i]]

\* String.prototype.trim
RECURSIVE trim(_)
trim(str) ==
  IF str = <<>> THEN str
  ELSE IF str[1] \in WhiteSpace THEN trim(Tail(str))
  ELSE IF str[Len(str)] \in WhiteSpace THEN trim(SubSeq(str, 1, Len(str) - 1))
  ELSE str

\* ALLOWED_TYPES (config.ts 45-53)
note == <<"n", "o", "t", "e">>
decision == <<"d", "e", "c", "i", "s", "i", "o", "n">>
fact == <<"f", "a", "c", "t">>
constraint == <<"c", "o", "n", "s", "t", "r", "a", "i", "n", "t">>
todo == <<"t", "o", "d", "o">>
architecture == <<"a", "r", "c", "h", "i", "t", "e", "c", "t", "u", "r", "e">>
glossary == <<"g", "l", "o", "s", "s", "a", "r", "y">>
ALLOWED_TYPES == {note, decision, fact, constraint, todo, architecture, glossary}

\* Mutant of validateType: the input is taken as it is.
validateType_asGiven(type) == IF type.given THEN type.text ELSE note

\* validateType (domain.ts 59-62): String(type || "note").toLowerCase().trim(),
\* kept when ALLOWED_TYPES has it, "note" otherwise.
validateType(type) ==
  LET t == trim(toLowerCase(IF type.given /\ type.text # <<>> THEN type.text
                            ELSE note))
  IN IF t \in ALLOWED_TYPES THEN t ELSE note

\* Mutant of newId: the same id at every call.
newId_reused(n) == 1

\* newId (domain.ts 53-57): prefix and 12 hex digits of a random UUID.  Ids
\* are taken as fresh: the n-th id handed out is n.
newId(n) == n

\* ------------------------------------------------------------ file contents
\* What a path holds: nothing, bytes that are no JSON, a truncated write, or a
\* JSON document.  A document records which of the fields loadStore and
\* withStore look at are present.
NoFile == [kind |-> "missing"]
Garbage == [kind |-> "garbage"]
NotAnObject == [kind |-> "scalar"]     \* JSON text of null, a number, a string
Partial == [kind |-> "partial"]

StoreDoc(version, hasItems, hasProposals, items, proposals, revision) ==
  [kind |-> "json", version |-> version, hasItems |-> hasItems,
   hasProposals |-> hasProposals, items |-> items, proposals |-> proposals,
   revision |-> revision]

ArchiveDoc(items, revision) ==
  [kind |-> "json", items |-> items, revision |-> revision]

\* A memory item (types.ts 9-24) with the fields the handlers and the
\* compaction read.  A timestamp of 0 and a proposalId of 0 stand for a field
\* that is absent.
MemoryItem(id, createdAt, updatedAt, lastUsedAt, pinned, source, proposalId, type) ==
  [id |-> id, createdAt |-> createdAt, updatedAt |-> updatedAt,
   lastUsedAt |-> lastUsedAt, pinned |-> pinned, source |-> source,
   proposalId |-> proposalId, type |-> type]

\* A memory item as memory_save builds it from an input without a type
\* (tools.js 277-288): the three timestamps are the handler's createdAt.
Item(id, at, source) ==
  MemoryItem(id, at, at, at, FALSE, source, 0, validateType(NoInput))

\* A proposal (types.ts 26-37): id, status, a content field, updatedAt, type.
MemoryProposal(id, status, title, updatedAt, type) ==
  [id |-> id, status |-> status, title |-> title, updatedAt |-> updatedAt,
   type |-> type]

\* The arguments of a handler call (with MEMORY_FILE_PATH of the process that
\* makes it, env) and what it reports.
NoArg == [type |-> NoInput, target |-> 0, flag |-> FALSE, maxItems |-> 0,
          summary |-> FALSE, env |-> NoInput]
NoRes == [msg |-> "none", archived |-> 0]

\* items 1..k saved one per tick by k earlier saves
RECURSIVE InitItems(_)
InitItems(k) ==
  IF k = 0 THEN <<>> ELSE Append(InitItems(k - 1), Item(k, k, "direct"))

\* ------------------------------------------------------------------- state
VARIABLES
  storeFile,     \* content of <root>/.ai/memory.json
  archiveFile,   \* content of <root>/.ai/memory-archive.json
  lockFile,      \* caller that created memory.json.lock, NoCaller if absent
  tmpFile,       \* per caller: content of its memory.json.tmp.<pid>.<ts>
  pc,            \* per caller: position inside withStore
  op,            \* per caller: the writeFn of the call in flight
  arg,           \* per caller: the arguments the handler was called with
  res,           \* per caller: what the handler reports (message, archived)
  started,       \* per caller: Date.now() - started inside acquireLock
  delay,         \* per caller: acquireLock's current retry delay
  attempts,      \* per caller: tryAcquireLock calls made by this acquireLock
  raw,           \* per caller: outcome of fs.readFile in loadStore
  mem,           \* per caller: the in-memory Store handed to writeFn
  updated,       \* per caller: what writeFn returned
  err,           \* per caller: the error the call ends with, "none" if none
  createdAt,     \* per caller: nowIso() taken by the handler before withStore
  snap,          \* per caller: the files as they were when it got the lock
  nextId,        \* next fresh id newId() hands out
  clock,         \* wall clock read by nowIso()
  calls,         \* withStore calls started so far
  commits,       \* calls that returned normally with writeFn = true
  faults,        \* I/O failures and crashes so far
  baseRev        \* revision persisted before the first call

vars == <<storeFile, archiveFile, lockFile, tmpFile, pc, op, arg, res, started, delay,
          attempts, raw, mem, updated, err, createdAt, snap, nextId, clock,
          calls, commits, faults, baseRev>>

diskVars == <<storeFile, archiveFile, lockFile, tmpFile>>
timing == <<started, delay, attempts>>

\* ------------------------------------------------------- storage.ts: codec
\* emptyStore (storage.ts 61-75)
emptyStore == StoreDoc(1, TRUE, TRUE, <<>>, <<>>, 0)

\* What fs.readFile(path) gives loadStore: the text of the file, or a throw
\* (ENOENT for a missing file, another errno when the read itself fails).
IOError == [kind |-> "ioerror"]
readFile(file, readFails) == IF readFails THEN IOError ELSE file

\* Mutant of loadStore: the version and shape checks are missing.
loadStore_unchecked(read) ==
  IF read.kind # "json" THEN emptyStore ELSE read

\* loadStore (storage.ts 77-90): every throw inside the try block, whether
\* from readFile (kinds missing, ioerror), JSON.parse (garbage, partial), the
\* object test (scalar) or the shape checks, ends in emptyStore.
loadStore(read) ==
  IF read.kind # "json" THEN emptyStore
  ELSE IF read.version # 1 \/ ~read.hasItems \/ ~read.hasProposals
       THEN emptyStore
       ELSE read

\* JSON.stringify(store) as written by atomicWriteJson: the document with
\* every field the in-memory store has.
stringify(store) == [store EXCEPT !.kind = "json"]

\* Mutant of readArchiveFile: the archive on disk is not read, every write
\* starts from a fresh document.
readArchiveFile_fresh(file) == ArchiveDoc(<<>>, 0)

\* readArchiveFile (maintenance.ts 39-58)
readArchiveFile(file) ==
  IF file.kind = "json" THEN file ELSE ArchiveDoc(<<>>, 0)

\* --------------------------------------------------- maintenance.ts: compact
\* Mutant of sortKey: the age is the creation time alone.
sortKey_createdAt(item) == item.createdAt

\* sortKey (maintenance.ts 60-64): the first of lastUsedAt, updatedAt,
\* createdAt that is set, as a number; 0 when none is.
sortKey(item) ==
  IF item.lastUsedAt # 0 THEN item.lastUsedAt
  ELSE IF item.updatedAt # 0 THEN item.updatedAt
  ELSE item.createdAt

\* Array.prototype.sort with (a, b) => sortKey(a) - sortKey(b): stable, ascending
RECURSIVE InsertByAge(_, _)
InsertByAge(sorted, it) ==
  IF sorted = <<>> THEN <<it>>
  ELSE IF sortKey(sorted[Len(sorted)]) <= sortKey(it) THEN Append(sorted, it)
       ELSE Append(InsertByAge(SubSeq(sorted, 1, Len(sorted) - 1), it),
                   sorted[Len(sorted)])

RECURSIVE sortedByAge(_)
sortedByAge(items) ==
  IF items = <<>> THEN <<>>
  ELSE InsertByAge(sortedByAge(SubSeq(items, 1, Len(items) - 1)), items[Len(items)])

IdsOf(items) == {items[i].id : i \in 1..Len(items)}

\* Mutant of targetCountOf: no slot is kept for the summary.
targetCountOf_noReserve(maxItems, includeSummary) == Max(maxItems, 0)

\* targetCount (maintenance.ts 108-110)
targetCountOf(maxItems, includeSummary) ==
  LET reserveForSummary == IF includeSummary THEN 1 ELSE 0
  IN Max(maxItems - reserveForSummary, 0)

\* { ...it, archivedAt: now, archivedReason: reason } (maintenance.ts 129-133)
archivedCopy(it, now, reason) ==
  [k \in DOMAIN it \cup {"archivedAt", "archivedReason"} |->
     IF k = "archivedAt" THEN now
     ELSE IF k = "archivedReason" THEN reason
     ELSE it[k]]

\* Mutant of bulletSource: the first entries of the list, not the last.
bulletSource_oldest(itemsToArchive, summaryMaxEntries) ==
  SubSeq(itemsToArchive, 1, Min(Len(itemsToArchive), summaryMaxEntries))

\* itemsToArchive.slice(-summaryMaxEntries) (maintenance.ts 141)
bulletSource(itemsToArchive, summaryMaxEntries) ==
  SubSeq(itemsToArchive,
         Max(Len(itemsToArchive) - summaryMaxEntries, 0) + 1,
         Len(itemsToArchive))

\* The summary record (maintenance.ts 99-102, 141-168).  Its content is the
\* number of archived items, one bullet line per record of bulletSource (here
\* the id of the record the line is about) and the "+N more" count.
summaryItemOf(itemsToArchive, reason, now, freshId) ==
  LET summaryMaxEntries == Max(SummaryMaxEntriesCfg, 1)
      listed == bulletSource(itemsToArchive, summaryMaxEntries)
      remaining == Len(itemsToArchive) - Len(listed)
  IN MemoryItem(newId(freshId), now, now, now, FALSE,
                IF reason = "auto" THEN "auto-compact" ELSE "compact", 0, note)
       @@ [content |-> [archived |-> Len(itemsToArchive),
                        bulletLines |-> [i \in 1..Len(listed) |-> listed[i].id],
                        remaining |-> remaining]]

\* compactStoreInPlace (maintenance.ts 75-185) as a function of its inputs:
\* the active items, the options, the archive on disk, nowIso() and a fresh id.
\* Gives the new active items, the archive document to write (written = FALSE
\* when nothing is archived) and the evicted items.
compactStoreInPlace(items, maxItemsOpt, includeSummary, reason, archive, now, freshId) ==
  LET maxItems == Max(maxItemsOpt, 0)
      targetCount == targetCountOf(maxItems, includeSummary)
      overflow == Len(items) - targetCount
      itemsToArchive == SubSeq(sortedByAge(items), 1, overflow)
      removalSet == IdsOf(itemsToArchive)
      survivors == SelectSeq(items, LAMBDA it : it.id \notin removalSet)
      old == readArchiveFile(archive)
      stamped == [i \in 1..Len(itemsToArchive) |->
                    archivedCopy(itemsToArchive[i], now, reason)]
      summaryItem == summaryItemOf(itemsToArchive, reason, now, freshId)
  IN IF maxItems = 0 \/ Len(items) <= targetCount
       THEN [archived |-> 0, items |-> items, written |-> FALSE,
             archive |-> archive, evicted |-> <<>>]
       ELSE [archived |-> Len(itemsToArchive),
             items |-> IF includeSummary THEN Append(survivors, summaryItem)
                       ELSE survivors,
             written |-> TRUE,
             archive |-> ArchiveDoc(old.items \o stamped, old.revision + 1),
             evicted |-> itemsToArchive]

\* Mutants of autoCompactDue: compacting already at the threshold; never
\* compacting.
autoCompactDue_atThreshold(enabled, cfgMaxItems, count) ==
  enabled /\ cfgMaxItems # 0 /\ count >= cfgMaxItems
autoCompactDue_never(enabled, cfgMaxItems, count) == FALSE

\* The two early returns of autoCompactStore (maintenance.ts 192-195)
autoCompactDue(enabled, cfgMaxItems, count) ==
  enabled /\ cfgMaxItems # 0 /\ count > cfgMaxItems

\* autoCompactStore (maintenance.ts 187-204) under a policy (cfg.enabled,
\* cfg.maxItems)
autoCompactStoreCfg(enabled, cfgMaxItems, items, archive, now, freshId) ==
  IF ~autoCompactDue(enabled, cfgMaxItems, Len(items))
    THEN [archived |-> 0, items |-> items, written |-> FALSE,
          archive |-> archive, evicted |-> <<>>]
    ELSE compactStoreInPlace(items, cfgMaxItems, summaryEnabled, "auto",
                             archive, now, freshId)

\* autoCompactStore under CONFIG.autoCompact
autoCompactStore(items, archive, now, freshId) ==
  autoCompactStoreCfg(autoCompactEnabled, MaxItemsCfg, items, archive, now, freshId)
\* ------------------------------------------------------------- initial state
\* A store the program itself has written: absent, or k items from k saves.
InitStoreFiles ==
  {NoFile} \cup
  {StoreDoc(1, TRUE, TRUE, InitItems(k), <<>>, k) : k \in 0..MaxInitItems}

\* Store files of any shape, as another program or a hand edit may leave them.
AnyStoreFiles ==
  InitStoreFiles \cup
  {Garbage, NotAnObject,
   StoreDoc(2, TRUE, TRUE, InitItems(1), <<>>, 1),
   StoreDoc(1, FALSE, TRUE, <<>>, <<>>, 1),
   StoreDoc(1, TRUE, FALSE, InitItems(1), <<>>, 1)}

\* The revision a path's content carries for a reader (0 when none loads).
RevisionOf(file) == loadStore(file).revision

NotLoaded == NoFile

\* No call has started; the ids and timestamps from firstFree on are unused.
InitFrom(files, firstFree) ==
  /\ storeFile \in files
  /\ archiveFile = NoFile
  /\ lockFile = NoCaller
  /\ tmpFile = [p \in Callers |-> NoFile]
  /\ pc = [p \in Callers |-> "idle"]
  /\ op = [p \in Callers |-> "none"]
  /\ arg = [p \in Callers |-> NoArg]
  /\ res = [p \in Callers |-> NoRes]
  /\ started = [p \in Callers |-> 0]
  /\ delay = [p \in Callers |-> 0]
  /\ attempts = [p \in Callers |-> 0]
  /\ raw = [p \in Callers |-> "none"]
  /\ mem = [p \in Callers |-> NotLoaded]
  /\ updated = [p \in Callers |-> FALSE]
  /\ err = [p \in Callers |-> "none"]
  /\ createdAt = [p \in Callers |-> 0]
  /\ snap = [p \in Callers |-> [store |-> NoFile, archive |-> NoFile]]
  /\ nextId = firstFree
  /\ clock = firstFree
  /\ calls = 0
  /\ commits = 0
  /\ faults = 0
  /\ baseRev = RevisionOf(storeFile)

InitWith(files) == InitFrom(files, MaxInitItems + 1)

Init == InitWith(InitStoreFiles)
InitAny == InitWith(AnyStoreFiles)

\* The writeFn closures of tools.js that the calls run:
\*   status  memory_status / memory_search / memory_get_bundle /
\*           memory_list_proposals: async () => false
\*   save    memory_save
\*   throw   a writeFn that throws
Ops == {"status", "save", "throw"}

\* The handlers that change proposals and items, and memory_compact:
\*   propose          memory_propose
\*   approve, reject  memory_approve_proposal with action approve / reject
\*   pin              memory_pin
\*   compact          memory_compact
ToolOps == {"save", "propose", "approve", "reject", "pin", "compact"}

\* The handlers that take nowIso() before they call withStore (tools.js 218,
\* 272, 364): createdAt of memory_propose and memory_save, decidedAt of
\* memory_approve_proposal.
Stamped == {"save", "propose", "approve", "reject"}

\* Positions at which a caller is between acquireLock's return and the end of
\* releaseLock.
Holding == {"load", "mutate", "write", "rename", "release"}

\* ------------------------------------------------- tools.js + withStore entry
\* The locals of a call that is over (returned, threw, or died with its
\* process) are gone; pc and err keep how it ended.
Forget(p) ==
  /\ op' = [op EXCEPT ![p] = "none"]
  /\ arg' = [arg EXCEPT ![p] = NoArg]
  /\ res' = [res EXCEPT ![p] = NoRes]
  /\ started' = [started EXCEPT ![p] = 0]
  /\ delay' = [delay EXCEPT ![p] = 0]
  /\ attempts' = [attempts EXCEPT ![p] = 0]
  /\ raw' = [raw EXCEPT ![p] = "none"]
  /\ mem' = [mem EXCEPT ![p] = NotLoaded]
  /\ updated' = [updated EXCEPT ![p] = FALSE]
  /\ createdAt' = [createdAt EXCEPT ![p] = 0]
  /\ snap' = [snap EXCEPT ![p] = [store |-> NoFile, archive |-> NoFile]]

\* A handler starts: nowIso() before withStore (tools.js 272), then withStore
\* up to the first loop test of acquireLock (storage.ts 103-110, 31-32).  A
\* caller that has returned, or reported its error, may call again; the locals
\* of its previous call are gone.
beginCall(p, o, a) ==
  /\ pc[p] \in {"idle", "done", "failed"}
  /\ calls < MaxCalls
  /\ calls' = calls + 1
  /\ op' = [op EXCEPT ![p] = o]
  /\ arg' = [arg EXCEPT ![p] = a]
  /\ res' = [res EXCEPT ![p] = NoRes]
  /\ createdAt' = [createdAt EXCEPT ![p] = IF o \in Stamped THEN clock ELSE 0]
  /\ clock' = IF o \in Stamped THEN clock + 1 ELSE clock
  /\ started' = [started EXCEPT ![p] = 0]
  /\ delay' = [delay EXCEPT ![p] = lockRetryDelayMs]
  /\ attempts' = [attempts EXCEPT ![p] = 0]
  /\ err' = [err EXCEPT ![p] = "none"]
  /\ pc' = [pc EXCEPT ![p] = "acquire"]
  /\ UNCHANGED <<diskVars, raw, mem, updated, snap, nextId, commits, baseRev, faults>>

\* A handler without arguments that matter here starts.
Begin(p, o) == beginCall(p, o, NoArg)

\* One of the handlers of ToolOps starts with arguments a.
BeginTool(p, o, a) == o \in ToolOps /\ beginCall(p, o, a)

\* ------------------------------------------------------ storage.ts: the lock
\* Mutants of tryAcquireLock: flag "w" instead of "wx"; taking over the lock
\* file of a process that is gone.
tryAcquireLock_w(p) == TRUE
tryAcquireLock_breakStale(p) ==
  IF lockFile = NoCaller THEN TRUE ELSE pc[lockFile] = "crashed"

\* tryAcquireLock (storage.ts 19-28): fs.open(lockPath, "wx") succeeds only
\* when the file does not exist.
tryAcquireLock(p) == lockFile = NoCaller

\* acquireLock, an iteration whose tryAcquireLock returns a handle
\* (storage.ts 34-36); withStore enters its try block.
AcquireOk(p) ==
  /\ pc[p] = "acquire"
  /\ started[p] < lockTimeoutMs
  /\ tryAcquireLock(p)
  /\ lockFile' = p
  /\ attempts' = [attempts EXCEPT ![p] = @ + 1]
  /\ snap' = [snap EXCEPT ![p] = [store |-> storeFile, archive |-> archiveFile]]
  /\ pc' = [pc EXCEPT ![p] = "load"]
  /\ UNCHANGED <<storeFile, archiveFile, tmpFile, op, arg, res, started, delay, raw, mem,
                 updated, err, createdAt, nextId, clock, calls, commits, baseRev, faults>>

\* Mutant of nextDelay: the delay grows without a cap.
nextDelay_uncapped(d) == (d * lockRetryBackoffNum) \div lockRetryBackoffDen

\* The delay after a failed attempt (storage.ts 39-42).
nextDelay(d) ==
  Min(maxLockRetryDelayMs, (d * lockRetryBackoffNum) \div lockRetryBackoffDen)

\* Mutant of acquireRetry: a loop that tests the elapsed time after the
\* attempt and the sleep only.
acquireRetry_untested(p, slept) ==
  /\ pc[p] = "acquire"
  /\ ~tryAcquireLock(p)
  /\ slept >= delay[p]
  /\ started' = [started EXCEPT ![p] = started[p] + slept]
  /\ delay' = [delay EXCEPT ![p] = nextDelay(delay[p])]
  /\ attempts' = [attempts EXCEPT ![p] = @ + 1]
  /\ UNCHANGED <<diskVars, pc, op, arg, res, raw, mem, updated, err, createdAt, snap,
                 nextId, clock, calls, commits, baseRev, faults>>

\* acquireLock, an iteration whose tryAcquireLock returns null: sleep, then
\* grow delay (storage.ts 34-42).  setTimeout(r, delay) sleeps for `slept`,
\* which is at least delay.
acquireRetry(p, slept) ==
  /\ pc[p] = "acquire"
  /\ started[p] < lockTimeoutMs
  /\ ~tryAcquireLock(p)
  /\ slept >= delay[p]
  /\ started' = [started EXCEPT ![p] = started[p] + slept]
  /\ delay' = [delay EXCEPT ![p] = nextDelay(delay[p])]
  /\ attempts' = [attempts EXCEPT ![p] = @ + 1]
  /\ UNCHANGED <<diskVars, pc, op, arg, res, raw, mem, updated, err, createdAt, snap,
                 nextId, clock, calls, commits, baseRev, faults>>

\* The timer fires on time.
AcquireRetry(p) ==
  /\ attempts[p] < MaxOnTimeSleeps
  /\ acquireRetry(p, delay[p])

\* Mutant of acquireTimeout: acquireLock called inside the try block, so the
\* finally unlinks the lock file on timeout.
acquireTimeout_inTry(p, elapsed) ==
  /\ pc[p] = "acquire"
  /\ elapsed >= lockTimeoutMs
  /\ err' = [err EXCEPT ![p] = "timeout"]
  /\ pc' = [pc EXCEPT ![p] = "failed"]
  /\ lockFile' = NoCaller
  /\ Forget(p)
  /\ UNCHANGED <<storeFile, archiveFile, tmpFile, nextId, clock, calls,
                 commits, baseRev, faults>>

\* acquireLock leaves its loop and throws (storage.ts 34, 45); the throw is
\* outside withStore's try block, so no finally runs (storage.ts 110-111).
acquireTimeout(p, elapsed) ==
  /\ pc[p] = "acquire"
  /\ elapsed >= lockTimeoutMs
  /\ err' = [err EXCEPT ![p] = "timeout"]
  /\ pc' = [pc EXCEPT ![p] = "failed"]
  /\ Forget(p)
  /\ UNCHANGED <<diskVars, nextId, clock, calls, commits, baseRev, faults>>

\* The loop test fails after on-time sleeps have used up the budget.
AcquireTimeout(p) == acquireTimeout(p, started[p])

\* A failed attempt whose timer fires late (a busy event loop, a suspended
\* process), by enough for the loop test that follows to fail.
AcquireRetryLate(p) ==
  /\ started[p] < lockTimeoutMs
  /\ ~tryAcquireLock(p)
  /\ acquireTimeout(p, started[p] + Max(delay[p], lockTimeoutMs - started[p]))

\* releaseLock (storage.ts 48-59): close the handle, unlink the lock file.
releaseLock(p) == NoCaller
\* ------------------------------------------------- storage.ts: withStore body
\* Mutant of onThrow: no finally, the exception leaves withStore at once.
onThrow_noFinally(p) == "failed"

\* Mutant of afterWriteFn: the result of writeFn is ignored.
afterWriteFn_always(upd) == "write"

\* Mutant of bumpRevision: the increment is forgotten.
bumpRevision_none(store) == store

\* try { ... } finally { releaseLock } (storage.ts 111-122): where control
\* goes when a statement of the try block throws.
onThrow(p) == "release"

\* if (updated) { ... atomicWriteJson } (storage.ts 114-118)
afterWriteFn(upd) == IF upd THEN "write" ELSE "release"

\* store.revision = (store.revision || 0) + 1 (storage.ts 116)
bumpRevision(store) == [store EXCEPT !.revision = @ + 1]

\* loadStore on a read that succeeds or reports a missing file (storage.ts 112)
Load(p) ==
  /\ pc[p] = "load"
  /\ raw' = [raw EXCEPT ![p] = IF storeFile.kind = "missing" THEN "enoent" ELSE "text"]
  /\ mem' = [mem EXCEPT ![p] = loadStore(readFile(storeFile, FALSE))]
  /\ pc' = [pc EXCEPT ![p] = "mutate"]
  /\ UNCHANGED <<diskVars, op, arg, res, timing, updated, err, createdAt, snap,
                 nextId, clock, calls, commits, baseRev, faults>>

\* writeFn of the read-only tools: async () => false (tools.js 62, 104, 159, 313)
MutateStatus(p) ==
  /\ pc[p] = "mutate"
  /\ op[p] = "status"
  /\ updated' = [updated EXCEPT ![p] = FALSE]
  /\ pc' = [pc EXCEPT ![p] = afterWriteFn(FALSE)]
  /\ UNCHANGED <<diskVars, op, arg, res, timing, raw, mem, err, createdAt, snap,
                 nextId, clock, calls, commits, baseRev, faults>>

\* a writeFn that throws: the exception leaves the try block (storage.ts 113)
MutateThrow(p) ==
  /\ pc[p] = "mutate"
  /\ op[p] = "throw"
  /\ err' = [err EXCEPT ![p] = "mutate"]
  /\ pc' = [pc EXCEPT ![p] = onThrow(p)]
  /\ UNCHANGED <<diskVars, op, arg, res, timing, raw, mem, updated, createdAt,
                 snap, nextId, clock, calls, commits, baseRev, faults>>

\* What memory_save's writeFn computes (tools.js 276-293): push the new item,
\* then autoCompactStore, which writes the archive when it evicts.
saveResult(p) ==
  autoCompactStore(Append(mem[p].items,
                          MemoryItem(newId(nextId), createdAt[p], createdAt[p], createdAt[p],
                                     FALSE, "direct", 0, validateType(arg[p].type))),
                   archiveFile, clock, nextId + 1)

\* writeFn of memory_save returning true (tools.js 276-293)
MutateSave(p) ==
  /\ pc[p] = "mutate"
  /\ op[p] = "save"
  /\ LET r == saveResult(p) IN
       /\ mem' = [mem EXCEPT ![p].items = r.items]
       /\ archiveFile' = IF r.written THEN r.archive ELSE archiveFile
       /\ nextId' = IF r.written /\ summaryEnabled THEN nextId + 2 ELSE nextId + 1
       /\ clock' = IF r.written THEN clock + 1 ELSE clock
  /\ updated' = [updated EXCEPT ![p] = TRUE]
  /\ pc' = [pc EXCEPT ![p] = afterWriteFn(TRUE)]
  /\ UNCHANGED <<storeFile, lockFile, tmpFile, op, arg, res, timing, raw, err,
                 createdAt, snap, calls, commits, baseRev, faults>>

\* ----------------------------------------- tools.js: proposals, pin, compact
\* Array.prototype.find by id: the index of the first record with that id, 0
\* when there is none.
findIndex(records, id) ==
  IF \E i \in 1..Len(records) : records[i].id = id
    THEN CHOOSE i \in 1..Len(records) :
           records[i].id = id /\ \A j \in 1..(i - 1) : records[j].id # id
    ELSE 0

\* Mutant of proposalCheck: the status of the proposal is not looked at.
proposalCheck_noStatus(proposals, proposalId) ==
  IF findIndex(proposals, proposalId) = 0 THEN "not_found" ELSE "ok"

\* The two early returns of memory_approve_proposal's writeFn (tools.js 369-378)
proposalCheck(proposals, proposalId) ==
  IF findIndex(proposals, proposalId) = 0 THEN "not_found"
  ELSE IF proposals[findIndex(proposals, proposalId)].status # "pending"
         THEN "already"
         ELSE "ok"

\* Mutant of decidedStatus: an approval leaves the proposal pending.
decidedStatus_pending(action) ==
  IF action = "approve" THEN "pending" ELSE "rejected"

\* p.status = action === "approve" ? "approved" : "rejected" (tools.js 388)
decidedStatus(action) == IF action = "approve" THEN "approved" ELSE "rejected"

\* Mutant of missingTarget: the writeFn asks for a write all the same.
missingTarget_write(store, archive, msg) ==
  [store |-> store, updated |-> TRUE, msg |-> msg, written |-> FALSE,
   archive |-> archive, archived |-> 0, ids |-> 0, ticks |-> 0]

\* resultText = ...; return false (tools.js 371-372, 376-377, 437-438): the
\* store is untouched and withStore is told not to write.
missingTarget(store, archive, msg) ==
  [store |-> store, updated |-> FALSE, msg |-> msg, written |-> FALSE,
   archive |-> archive, archived |-> 0, ids |-> 0, ticks |-> 0]

\* writeFn of memory_approve_proposal (tools.js 368-413).  a.target is the
\* proposalId, a.flag tells whether edits.title was passed, a.type is
\* edits.type.
approveWriteFn(store, a, action, decidedAt, archive, now, freshId) ==
  LET check == proposalCheck(store.proposals, a.target)
      i == findIndex(store.proposals, a.target)
      found == store.proposals[i]
      retitled == IF a.flag THEN [found EXCEPT !.title = "edited"] ELSE found
      edited == IF a.type.given /\ a.type.text # <<>>
                  THEN [retitled EXCEPT !.type = validateType(a.type)]
                  ELSE retitled
      decided == [edited EXCEPT !.status = decidedStatus(action),
                                !.updatedAt = decidedAt]
      item == MemoryItem(newId(freshId), decidedAt, decidedAt, decidedAt, FALSE,
                         "proposal", found.id, edited.type)
      c == autoCompactStore(Append(store.items, item), archive, now, freshId + 1)
  IN IF check = "not_found" THEN missingTarget(store, archive, "Proposal not found")
     ELSE IF check = "already" THEN missingTarget(store, archive, "Proposal is already decided")
     ELSE IF action = "approve"
       THEN [store |-> [store EXCEPT !.proposals[i] = decided, !.items = c.items],
             updated |-> TRUE, msg |-> "Approved", written |-> c.written,
             archive |-> c.archive, archived |-> c.archived,
             ids |-> IF c.written /\ summaryEnabled THEN 2 ELSE 1,
             ticks |-> IF c.written THEN 1 ELSE 0]
       ELSE [store |-> [store EXCEPT !.proposals[i] = decided],
             updated |-> TRUE, msg |-> "Rejected", written |-> FALSE,
             archive |-> archive, archived |-> 0, ids |-> 0, ticks |-> 0]

\* writeFn of memory_pin (tools.js 434-444).  a.target is the itemId, a.flag
\* the pinned argument.
pinWriteFn(store, a, archive, now) ==
  LET i == findIndex(store.items, a.target)
  IN IF i = 0 THEN missingTarget(store, archive, "Item not found")
     ELSE [store |-> [store EXCEPT !.items[i].pinned = a.flag,
                                   !.items[i].updatedAt = now],
           updated |-> TRUE, msg |-> IF a.flag THEN "Pinned" ELSE "Unpinned",
           written |-> FALSE, archive |-> archive, archived |-> 0,
           ids |-> 0, ticks |-> 1]

\* writeFn of memory_compact (tools.js 490-500).  a.maxItems is the maxItems
\* argument (0 when it is left out, and CONFIG.autoCompact.maxItems applies);
\* a.summary is FALSE when an empty summaryTitle is passed.
compactWriteFn(store, a, archive, now, freshId) ==
  LET c == compactStoreInPlace(store.items,
                               IF a.maxItems = 0 THEN MaxItemsCfg ELSE a.maxItems,
                               a.summary, "manual", archive, now, freshId)
  IN [store |-> [store EXCEPT !.items = c.items],
      updated |-> c.archived > 0,
      msg |-> IF c.archived > 0 THEN "Archived" ELSE "No compaction needed",
      written |-> c.written, archive |-> c.archive, archived |-> c.archived,
      ids |-> IF c.written /\ a.summary THEN 1 ELSE 0,
      ticks |-> IF c.written THEN 1 ELSE 0]

\* The proposals memory_propose pushes for its first n input items, each of
\* type a.type (tools.js 223-238).
RECURSIVE proposalsOf(_, _, _, _)
proposalsOf(n, a, at, freshId) ==
  IF n = 0 THEN <<>>
  ELSE Append(proposalsOf(n - 1, a, at, freshId),
              MemoryProposal(newId(freshId + n - 1), "pending", "title", at,
                             validateType(a.type)))

\* writeFn of memory_propose (tools.js 222-240).  a.target is the number of
\* input items.
proposeWriteFn(store, a, at, archive, freshId) ==
  [store |-> [store EXCEPT !.proposals = @ \o proposalsOf(a.target, a, at, freshId)],
   updated |-> TRUE, msg |-> "Proposals created", written |-> FALSE,
   archive |-> archive, archived |-> 0, ids |-> a.target, ticks |-> 0]

\* What the writeFn of the call in flight computes.
toolResult(p) ==
  IF op[p] = "pin" THEN pinWriteFn(mem[p], arg[p], archiveFile, clock)
  ELSE IF op[p] = "propose"
    THEN proposeWriteFn(mem[p], arg[p], createdAt[p], archiveFile, nextId)
  ELSE IF op[p] = "compact"
    THEN compactWriteFn(mem[p], arg[p], archiveFile, clock, nextId)
  ELSE approveWriteFn(mem[p], arg[p], op[p], createdAt[p], archiveFile, clock, nextId)

\* The writeFn runs to its return, archive write included.
mutateTool(p) ==
  /\ pc[p] = "mutate"
  /\ LET r == toolResult(p) IN
       /\ mem' = [mem EXCEPT ![p] = r.store]
       /\ archiveFile' = IF r.written THEN r.archive ELSE archiveFile
       /\ nextId' = nextId + r.ids
       /\ clock' = clock + r.ticks
       /\ updated' = [updated EXCEPT ![p] = r.updated]
       /\ res' = [res EXCEPT ![p] = [msg |-> r.msg, archived |-> r.archived]]
       /\ pc' = [pc EXCEPT ![p] = afterWriteFn(r.updated)]
  /\ UNCHANGED <<storeFile, lockFile, tmpFile, op, arg, timing, raw, err,
                 createdAt, snap, calls, commits, baseRev, faults>>

MutateApprove(p) == op[p] \in {"approve", "reject"} /\ mutateTool(p)
MutatePropose(p) == op[p] = "propose" /\ mutateTool(p)
MutatePin(p) == op[p] = "pin" /\ mutateTool(p)
MutateCompact(p) == op[p] = "compact" /\ mutateTool(p)

\* Mutant of WriteTmp: fs.writeFile on the store path itself, which truncates
\* it and fills it while the write is in progress.
WriteTmp_inPlace(p) ==
  /\ pc[p] = "write"
  /\ mem' = [mem EXCEPT ![p] = bumpRevision(mem[p])]
  /\ storeFile' = Partial
  /\ tmpFile' = [tmpFile EXCEPT ![p] = stringify(bumpRevision(mem[p]))]
  /\ pc' = [pc EXCEPT ![p] = "rename"]
  /\ UNCHANGED <<archiveFile, lockFile, op, arg, res, timing, raw, updated, err,
                 createdAt, snap, nextId, clock, calls, commits, baseRev, faults>>

\* atomicWriteJson, first half (storage.ts 115-116, 93-95): stamp, bump the
\* revision, write the whole document to the temp file.
WriteTmp(p) ==
  /\ pc[p] = "write"
  /\ mem' = [mem EXCEPT ![p] = bumpRevision(mem[p])]
  /\ tmpFile' = [tmpFile EXCEPT ![p] = stringify(bumpRevision(mem[p]))]
  /\ pc' = [pc EXCEPT ![p] = "rename"]
  /\ UNCHANGED <<storeFile, archiveFile, lockFile, op, arg, res, timing, raw,
                 updated, err, createdAt, snap, nextId, clock, calls, commits,
                 baseRev, faults>>

\* atomicWriteJson, second half (storage.ts 96): rename temp over the store.
Rename(p) ==
  /\ pc[p] = "rename"
  /\ storeFile' = tmpFile[p]
  /\ tmpFile' = [tmpFile EXCEPT ![p] = NoFile]
  /\ pc' = [pc EXCEPT ![p] = "release"]
  /\ UNCHANGED <<archiveFile, lockFile, op, arg, res, timing, raw, mem, updated,
                 err, createdAt, snap, nextId, clock, calls, commits, baseRev, faults>>

\* finally { releaseLock } and the return or rethrow (storage.ts 119-122).
\* tmpFile[p] is the temp file of the call in flight: one a failed write left
\* behind stays on disk under a name no later call uses, and is tracked no
\* longer.
Release(p) ==
  /\ pc[p] = "release"
  /\ lockFile' = releaseLock(p)
  /\ pc' = [pc EXCEPT ![p] = IF err[p] = "none" THEN "done" ELSE "failed"]
  /\ commits' = IF err[p] = "none" /\ updated[p] THEN commits + 1 ELSE commits
  /\ tmpFile' = [tmpFile EXCEPT ![p] = NoFile]
  /\ Forget(p)
  /\ UNCHANGED <<storeFile, archiveFile, err, nextId, clock, calls, baseRev, faults>>

Next ==
  \E p \in Callers :
    \/ \E o \in Ops : Begin(p, o)
    \/ AcquireOk(p)
    \/ AcquireRetry(p)
    \/ AcquireRetryLate(p)
    \/ Load(p)
    \/ MutateStatus(p)
    \/ MutateThrow(p)
    \/ MutateSave(p)
    \/ WriteTmp(p)
    \/ Rename(p)
    \/ Release(p)

Spec == Init /\ [][Next]_vars
\* ------------------------------------------------------ environment faults
\* tryAcquireLock when fs.open succeeds and handle.writeFile throws
\* (storage.ts 22-27): the catch returns null, the file just created stays.
AcquireBodyFail(p) ==
  /\ pc[p] = "acquire"
  /\ started[p] < lockTimeoutMs
  /\ tryAcquireLock(p)
  /\ lockFile' = p
  /\ started' = [started EXCEPT ![p] = started[p] + delay[p]]
  /\ delay' = [delay EXCEPT ![p] = nextDelay(delay[p])]
  /\ attempts' = [attempts EXCEPT ![p] = @ + 1]
  /\ UNCHANGED <<storeFile, archiveFile, tmpFile, pc, op, arg, res, raw, mem, updated,
                 err, createdAt, snap, nextId, clock, calls, commits, baseRev>>
  /\ faults < MaxFaults
  /\ faults' = faults + 1

\* loadStore when fs.readFile throws an errno other than ENOENT
\* (storage.ts 79, 86-89)
LoadReadError(p) ==
  /\ pc[p] = "load"
  /\ storeFile.kind # "missing"
  /\ raw' = [raw EXCEPT ![p] = "ioerror"]
  /\ mem' = [mem EXCEPT ![p] = loadStore(readFile(storeFile, TRUE))]
  /\ pc' = [pc EXCEPT ![p] = "mutate"]
  /\ UNCHANGED <<diskVars, op, arg, res, timing, updated, err, createdAt, snap,
                 nextId, clock, calls, commits, baseRev>>
  /\ faults < MaxFaults
  /\ faults' = faults + 1

\* memory_save's writeFn when the archive write of compactStoreInPlace throws
\* (maintenance.ts 137, 33-36): the exception leaves writeFn and the try block.
MutateSaveArchiveFail(p) ==
  /\ pc[p] = "mutate"
  /\ op[p] = "save"
  /\ saveResult(p).written
  /\ err' = [err EXCEPT ![p] = "mutate"]
  /\ nextId' = nextId + 1
  /\ clock' = clock + 1
  /\ pc' = [pc EXCEPT ![p] = onThrow(p)]
  /\ UNCHANGED <<diskVars, op, arg, res, timing, raw, mem, updated, createdAt, snap,
                 calls, commits, baseRev>>
  /\ faults < MaxFaults
  /\ faults' = faults + 1

\* atomicWriteJson when fs.writeFile(tmp) throws (storage.ts 95): part of the
\* document may be in the temp file.
WriteTmpFail(p) ==
  /\ pc[p] = "write"
  /\ mem' = [mem EXCEPT ![p] = bumpRevision(mem[p])]
  /\ tmpFile' = [tmpFile EXCEPT ![p] = Partial]
  /\ err' = [err EXCEPT ![p] = "write"]
  /\ pc' = [pc EXCEPT ![p] = onThrow(p)]
  /\ UNCHANGED <<storeFile, archiveFile, lockFile, op, arg, res, timing, raw, updated,
                 createdAt, snap, nextId, clock, calls, commits, baseRev>>
  /\ faults < MaxFaults
  /\ faults' = faults + 1

\* atomicWriteJson when fs.rename throws (storage.ts 96)
RenameFail(p) ==
  /\ pc[p] = "rename"
  /\ err' = [err EXCEPT ![p] = "write"]
  /\ pc' = [pc EXCEPT ![p] = onThrow(p)]
  /\ UNCHANGED <<diskVars, op, arg, res, timing, raw, mem, updated, createdAt, snap,
                 nextId, clock, calls, commits, baseRev>>
  /\ faults < MaxFaults
  /\ faults' = faults + 1

\* The process dies inside withStore's try block: no finally runs, the files
\* stay as they are.
Crash(p) ==
  /\ pc[p] \in Holding
  /\ pc' = [pc EXCEPT ![p] = "crashed"]
  /\ Forget(p)
  /\ UNCHANGED <<diskVars, err, nextId, clock, calls, commits, baseRev>>
  /\ faults < MaxFaults
  /\ faults' = faults + 1

\* The process dies while fs.writeFile(tmp) is writing (storage.ts 95).
CrashMidWrite(p) ==
  /\ pc[p] = "write"
  /\ pc' = [pc EXCEPT ![p] = "crashed"]
  /\ Forget(p)
  /\ tmpFile' = [tmpFile EXCEPT ![p] = Partial]
  /\ UNCHANGED <<storeFile, archiveFile, lockFile, err, nextId, clock, calls,
                 commits, baseRev>>
  /\ faults < MaxFaults
  /\ faults' = faults + 1

NextFault ==
  \/ Next
  \/ \E p \in Callers :
       \/ LoadReadError(p)
       \/ MutateSaveArchiveFail(p)
       \/ WriteTmpFail(p)
       \/ RenameFail(p)
       \/ Crash(p)
       \/ CrashMidWrite(p)

SpecFault == Init /\ [][NextFault]_vars

\* ------------------------------------------------ storage.ts: acquireLock
\* A failed attempt whose timer fires exactly after delay ms.
AcquireRetryOnTime(p) == acquireRetry(p, delay[p])

\* A failed attempt whose timer fires late, at the moment the timeout budget
\* is used up (or on time, when that is later).
AcquireRetryToBudget(p) ==
  acquireRetry(p, Max(delay[p], lockTimeoutMs - started[p]))

\* The steps of acquireLock's loop (storage.ts 30-46)
acquireLock(p) ==
  \/ AcquireOk(p)
  \/ AcquireBodyFail(p)
  \/ AcquireRetryOnTime(p)
  \/ AcquireRetryToBudget(p)
  \/ AcquireTimeout(p)

\* One process is about to call withStore; the lock is free, or another
\* process is inside a read-only call and has got the lock at its first
\* attempt.
InitLock ==
  \E h \in (Callers \cup {NoCaller}) \ {Writer} :
    /\ storeFile \in InitStoreFiles
    /\ archiveFile = NoFile
    /\ lockFile = h
    /\ tmpFile = [p \in Callers |-> NoFile]
    /\ pc = [p \in Callers |-> IF p = h THEN "load" ELSE "idle"]
    /\ op = [p \in Callers |-> IF p = h THEN "status" ELSE "none"]
    /\ arg = [p \in Callers |-> NoArg]
    /\ res = [p \in Callers |-> NoRes]
    /\ started = [p \in Callers |-> 0]
    /\ delay = [p \in Callers |-> IF p = h THEN lockRetryDelayMs ELSE 0]
    /\ attempts = [p \in Callers |-> IF p = h THEN 1 ELSE 0]
    /\ raw = [p \in Callers |-> "none"]
    /\ mem = [p \in Callers |-> NotLoaded]
    /\ updated = [p \in Callers |-> FALSE]
    /\ err = [p \in Callers |-> "none"]
    /\ createdAt = [p \in Callers |-> 0]
    /\ snap = [p \in Callers |->
                IF p = h THEN [store |-> storeFile, archive |-> archiveFile]
                ELSE [store |-> NoFile, archive |-> NoFile]]
    /\ nextId = MaxInitItems + 1
    /\ clock = MaxInitItems + 1
    /\ calls = IF h = NoCaller THEN 0 ELSE 1
    /\ commits = 0
    /\ faults = 0
    /\ baseRev = RevisionOf(storeFile)

\* The calls of that process wait for the lock with every sleep timed,
\* behind a holder that releases the lock sooner or later or never, and
\* behind a lock file left by a tryAcquireLock whose write failed.
NextLock ==
  \E p \in Callers :
    \/ p = Writer /\ Begin(p, "status")
    \/ AcquireOk(p)
    \/ AcquireBodyFail(p)
    \/ AcquireRetryOnTime(p)
    \/ AcquireRetryToBudget(p)
    \/ AcquireTimeout(p)
    \/ Load(p)
    \/ MutateStatus(p)
    \/ Release(p)

\* An awaited fs.open settles and a timer set fires: a call inside
\* acquireLock takes its next step.
SpecLock ==
  InitLock /\ [][NextLock]_vars /\ \A p \in Callers : WF_vars(acquireLock(p))

\* Any store file, and reads that may fail.
NextLoad ==
  \/ Next
  \/ \E p \in Callers : LoadReadError(p)

SpecLoad == InitAny /\ [][NextLoad]_vars
\* ------------------------------------------------ the tool handlers at work
\* Items as the hooks push them (hooks/shared.ts 121-131, hooks/auto-memory.ts
\* 153-163): no lastUsedAt, and no compaction after the push, so a store may
\* hold more than CONFIG.autoCompact.maxItems of them.
RECURSIVE HookItems(_)
HookItems(k) ==
  IF k = 0 THEN <<>>
  ELSE Append(HookItems(k - 1), MemoryItem(k, k, k, 0, FALSE, "auto-hook", 0, fact))

\* A proposal as memory_propose pushes it (tools.js 224-236)
PendingProposal(id) == MemoryProposal(id, "pending", "title", id, decision)

\* Stores with one pending proposal and a number of items just below, at and
\* above CONFIG.autoCompact.maxItems.
ToolStoreFiles ==
  {NoFile} \cup
  {StoreDoc(1, TRUE, TRUE, HookItems(k), <<PendingProposal(1)>>, k + 1) :
     k \in (MaxItemsCfg - 1)..(MaxItemsCfg + 1)}

InitTools == InitFrom(ToolStoreFiles, MaxItemsCfg + 2)

Arg(target, flag, maxItems, summary) ==
  [type |-> NoInput, target |-> target, flag |-> flag, maxItems |-> maxItems,
   summary |-> summary, env |-> NoInput]

\* The calls made: a save; approvals and rejections of proposal 1 and of an
\* id no proposal has (0), approvals with and without edits; pinning item 1
\* and an id no item has (0).
ToolCalls ==
  {<<"save", NoArg>>}
  \cup {<<"approve", Arg(t, e, 0, FALSE)>> : t \in 0..1, e \in BOOLEAN}
  \cup {<<"reject", Arg(t, FALSE, 0, FALSE)>> : t \in 0..1}
  \cup {<<"pin", Arg(t, TRUE, 0, FALSE)>> : t \in 0..1}

\* The callers wait for the lock as long as it takes.
NextTools ==
  \E p \in Callers :
    \/ \E c \in ToolCalls : BeginTool(p, c[1], c[2])
    \/ AcquireOk(p)
    \/ Load(p)
    \/ MutateSave(p)
    \/ MutateApprove(p)
    \/ MutatePin(p)
    \/ WriteTmp(p)
    \/ Rename(p)
    \/ Release(p)

SpecTools == InitTools /\ [][NextTools]_vars

\* ------------------------------------------------- tools.js: records made
\* The calls made: a save; memory_propose with one and with two items;
\* approvals of the proposal the store starts with and of the first one
\* proposed.
IdCalls ==
  {<<"save", NoArg>>}
  \cup {<<"propose", Arg(n, FALSE, 0, FALSE)>> : n \in 1..2}
  \cup {<<"approve", Arg(t, FALSE, 0, FALSE)>> : t \in {1, MaxItemsCfg + 2}}

NextIds ==
  \E p \in Callers :
    \/ \E c \in IdCalls : BeginTool(p, c[1], c[2])
    \/ AcquireOk(p)
    \/ Load(p)
    \/ MutateSave(p)
    \/ MutatePropose(p)
    \/ MutateApprove(p)
    \/ WriteTmp(p)
    \/ Rename(p)
    \/ Release(p)

SpecIds == InitTools /\ [][NextIds]_vars

\* ------------------------------------------- maintenance.ts: compaction runs
\* k items in insertion order whose times are given by age.  Item i is, by
\* turns, a hook item that memory_pin touched later (created at 1, updatedAt
\* at its time, pinned), an item of memory_save (its three timestamps equal),
\* and an untouched hook item (no lastUsedAt).
AgedItems(k, age) ==
  [i \in 1..k |->
     IF i % 3 = 1 THEN MemoryItem(i, 1, age[i] + 1, 0, TRUE, "auto-hook", 0, fact)
     ELSE IF i % 3 = 2
       THEN MemoryItem(i, age[i] + 1, age[i] + 1, age[i] + 1, FALSE, "direct", 0, note)
       ELSE MemoryItem(i, age[i] + 1, age[i] + 1, 0, FALSE, "auto-hook", 0, fact)]

\* Stores of up to maxItems + 1 items in any order of age, equal ages included.
CompactStores ==
  {StoreDoc(1, TRUE, TRUE, AgedItems(Len(age), age), <<>>, Len(age)) :
     age \in UNION {[1..n -> 1..n] : n \in 0..(MaxItemsCfg + 1)}}

\* The writer holds the lock and has loaded the store.
InitCompact ==
  /\ storeFile \in CompactStores
  /\ archiveFile = NoFile
  /\ lockFile = Writer
  /\ tmpFile = [p \in Callers |-> NoFile]
  /\ pc = [p \in Callers |-> IF p = Writer THEN "mutate" ELSE "idle"]
  /\ op = [p \in Callers |-> "none"]
  /\ arg = [p \in Callers |-> NoArg]
  /\ res = [p \in Callers |-> NoRes]
  /\ started = [p \in Callers |-> 0]
  /\ delay = [p \in Callers |-> 0]
  /\ attempts = [p \in Callers |-> 0]
  /\ raw = [p \in Callers |-> IF p = Writer THEN "text" ELSE "none"]
  /\ mem = [p \in Callers |-> IF p = Writer THEN loadStore(storeFile) ELSE NotLoaded]
  /\ updated = [p \in Callers |-> FALSE]
  /\ err = [p \in Callers |-> "none"]
  /\ createdAt = [p \in Callers |-> 0]
  /\ snap = [p \in Callers |-> [store |-> NoFile, archive |-> NoFile]]
  /\ nextId = MaxItemsCfg + 3
  /\ clock = MaxItemsCfg + 3
  /\ calls = 0
  /\ commits = 0
  /\ faults = 0
  /\ baseRev = RevisionOf(storeFile)

\* One run of a compaction on the store in memory: its result r replaces the
\* items, the archive write it made is on disk.
compactionRun(p, o, a, r) ==
  /\ pc[p] = "mutate"
  /\ calls < MaxCalls
  /\ calls' = calls + 1
  /\ op' = [op EXCEPT ![p] = o]
  /\ arg' = [arg EXCEPT ![p] = a]
  /\ mem' = [mem EXCEPT ![p].items = r.items]
  /\ archiveFile' = IF r.written THEN r.archive ELSE archiveFile
  /\ res' = [res EXCEPT ![p] = [msg |-> IF r.archived > 0 THEN "Archived"
                                        ELSE "No compaction needed",
                                archived |-> r.archived]]
  /\ nextId' = IF r.written THEN nextId + 1 ELSE nextId
  /\ clock' = IF r.written THEN clock + 1 ELSE clock
  /\ UNCHANGED <<storeFile, lockFile, tmpFile, pc, timing, raw, updated, err,
                 createdAt, snap, commits, baseRev, faults>>

\* compactStoreInPlace as memory_compact calls it (tools.js 491-498), with a
\* maxItems argument (0: left out) and with or without a summary title.
CompactNow(p, a) ==
  compactionRun(p, "compact", a,
                compactStoreInPlace(mem[p].items,
                                    IF a.maxItems = 0 THEN MaxItemsCfg ELSE a.maxItems,
                                    a.summary, "manual", archiveFile, clock, nextId))

\* autoCompactStore (maintenance.ts 187-204) under a policy that is enabled
\* (a.flag) or not
AutoCompact(p, a) ==
  compactionRun(p, "auto", a,
                autoCompactStoreCfg(a.flag, MaxItemsCfg, mem[p].items,
                                    archiveFile, clock, nextId))

\* compactStoreInPlace, called by memory_compact, when its archive write
\* throws (maintenance.ts 137, 33-36): the items have been cut down to the
\* survivors (124-125), no summary is pushed, and the exception leaves the
\* writeFn and withStore's try block.
CompactArchiveFail(p, a) ==
  /\ pc[p] = "mutate"
  /\ LET r == compactStoreInPlace(mem[p].items,
                                  IF a.maxItems = 0 THEN MaxItemsCfg ELSE a.maxItems,
                                  a.summary, "manual", archiveFile, clock, nextId)
     IN /\ r.written
        /\ mem' = [mem EXCEPT ![p].items =
                      SelectSeq(mem[p].items, LAMBDA it : it.id \notin IdsOf(r.evicted))]
  /\ op' = [op EXCEPT ![p] = "compact"]
  /\ arg' = [arg EXCEPT ![p] = a]
  /\ err' = [err EXCEPT ![p] = "mutate"]
  /\ pc' = [pc EXCEPT ![p] = onThrow(p)]
  /\ clock' = clock + 1
  /\ UNCHANGED <<diskVars, res, timing, raw, updated, createdAt, snap, nextId,
                 calls, commits, baseRev>>
  /\ faults < MaxFaults
  /\ faults' = faults + 1

NextCompact ==
  \E p \in Callers :
    \/ \E m \in 0..(MaxItemsCfg + 1), t \in BOOLEAN : CompactNow(p, Arg(0, FALSE, m, t))
    \/ \E e \in BOOLEAN : AutoCompact(p, Arg(0, e, 0, summaryEnabled))
    \/ \E m \in 0..(MaxItemsCfg + 1), t \in BOOLEAN :
         CompactArchiveFail(p, Arg(0, FALSE, m, t))

SpecCompact == InitCompact /\ [][NextCompact]_vars

\* ------------------------------------------------ tools.js: types stored
\* The type inputs: left out, empty, a member of ALLOWED_TYPES, one in capital
\* letters, one with white space around it, a word that is no type.
TypeInputs ==
  {NoInput, Text(<<>>), Text(fact), Text(<<"F", "A", "C", "T">>),
   Text(<<" ", "t", "o", "d", "o", " ">>), Text(<<"b", "o", "g", "u", "s">>)}

\* The calls made: memory_save and memory_propose (one item) with each type
\* input, approvals of the proposal the store starts with, with each input as
\* edits.type.
TypeCalls ==
  {<<"save", [NoArg EXCEPT !.type = t]>> : t \in TypeInputs}
  \cup {<<"propose", [Arg(1, FALSE, 0, FALSE) EXCEPT !.type = t]>> : t \in TypeInputs}
  \cup {<<"approve", [Arg(1, FALSE, 0, FALSE) EXCEPT !.type = t]>> : t \in TypeInputs}

\* One process makes the calls, one after the other.
NextTypes ==
  \E p \in {Writer} :
    \/ \E c \in TypeCalls : BeginTool(p, c[1], c[2])
    \/ AcquireOk(p)
    \/ Load(p)
    \/ MutateSave(p)
    \/ MutatePropose(p)
    \/ MutateApprove(p)
    \/ WriteTmp(p)
    \/ Rename(p)
    \/ Release(p)

SpecTypes == InitTools /\ [][NextTypes]_vars

\* ------------------------------------- compactions through withStore, faults
\* Stores of maxItems and maxItems + 1 hook items.
ArchiveStoreFiles ==
  {StoreDoc(1, TRUE, TRUE, HookItems(k), <<>>, k) :
     k \in MaxItemsCfg..(MaxItemsCfg + 1)}

InitArchive == InitFrom(ArchiveStoreFiles, MaxItemsCfg + 2)

\* The calls made: a save; memory_compact with maxItems from 1 to
\* CONFIG.autoCompact.maxItems, with and without a summary title.
ArchiveCalls ==
  {<<"save", NoArg>>}
  \cup {<<"compact", Arg(0, FALSE, m, t)>> : m \in 1..MaxItemsCfg, t \in BOOLEAN}

\* Saves and compactions whose store write may fail.
NextArchive ==
  \E p \in Callers :
    \/ \E c \in ArchiveCalls : BeginTool(p, c[1], c[2])
    \/ AcquireOk(p)
    \/ Load(p)
    \/ MutateSave(p)
    \/ MutateCompact(p)
    \/ WriteTmp(p)
    \/ Rename(p)
    \/ Release(p)
    \/ WriteTmpFail(p)
    \/ RenameFail(p)

SpecArchive == InitArchive /\ [][NextArchive]_vars

\* ------------------------------------ one project, several memory file paths
\* resolveMemoryFilePath (runtime.ts 44-53) in one project root:
\* MEMORY_FILE_PATH when it is set and not blank, CONFIG.defaultRelMemoryPath
\* otherwise.  Paths are relative to the project root.
defaultRelMemoryPath == <<".", "a", "i", "/", "m">>
customRelMemoryPath == <<".", "a", "i", "/", "c">>
resolveMemoryFilePath(envPath) ==
  IF envPath.given /\ trim(envPath.text) # <<>> THEN trim(envPath.text)
  ELSE defaultRelMemoryPath

\* MEMORY_FILE_PATH of the processes: unset, the default path spelled out, a
\* path of its own (docs: MEMORY_FILE_PATH=.ai/custom-memory.json).
EnvPaths == {NoInput, Text(defaultRelMemoryPath), Text(customRelMemoryPath)}
MemoryFilePaths == {resolveMemoryFilePath(e) : e \in EnvPaths}

\* The memory file of the call in flight; its lock is at that path + ".lock"
\* (storage.ts 105-106).  The archive of every call is the one of the project
\* root (maintenance.ts 19-26 with no archivePath given).
memoryFilePath(p) == resolveMemoryFilePath(arg[p].env)

\* In SpecPaths storeFile and lockFile hold one content per memory file path.
InitPaths ==
  /\ storeFile \in [MemoryFilePaths -> ArchiveStoreFiles]
  /\ archiveFile = NoFile
  /\ lockFile = [m \in MemoryFilePaths |-> NoCaller]
  /\ tmpFile = [p \in Callers |-> NoFile]
  /\ pc = [p \in Callers |-> "idle"]
  /\ op = [p \in Callers |-> "none"]
  /\ arg = [p \in Callers |-> NoArg]
  /\ res = [p \in Callers |-> NoRes]
  /\ started = [p \in Callers |-> 0]
  /\ delay = [p \in Callers |-> 0]
  /\ attempts = [p \in Callers |-> 0]
  /\ raw = [p \in Callers |-> "none"]
  /\ mem = [p \in Callers |-> NotLoaded]
  /\ updated = [p \in Callers |-> FALSE]
  /\ err = [p \in Callers |-> "none"]
  /\ createdAt = [p \in Callers |-> 0]
  /\ snap = [p \in Callers |-> [store |-> NoFile, archive |-> NoFile]]
  /\ nextId = MaxItemsCfg + 2
  /\ clock = MaxItemsCfg + 2
  /\ calls = 0
  /\ commits = 0
  /\ faults = 0
  /\ baseRev = 0

\* memory_compact is called, with or without a summary title, in a process
\* whose MEMORY_FILE_PATH is e.
BeginAt(p, e, t) ==
  BeginTool(p, "compact", [Arg(0, FALSE, MaxItemsCfg, t) EXCEPT !.env = e])

\* acquireLock on the lock file of the call's memory file (storage.ts 106, 110)
AcquireAt(p) ==
  /\ pc[p] = "acquire"
  /\ lockFile[memoryFilePath(p)] = NoCaller
  /\ lockFile' = [lockFile EXCEPT ![memoryFilePath(p)] = p]
  /\ attempts' = [attempts EXCEPT ![p] = @ + 1]
  /\ pc' = [pc EXCEPT ![p] = "load"]
  /\ UNCHANGED <<storeFile, archiveFile, tmpFile, op, arg, res, started, delay, raw,
                 mem, updated, err, createdAt, snap, nextId, clock, calls, commits,
                 baseRev, faults>>

\* loadStore of the call's memory file (storage.ts 112)
LoadAt(p) ==
  /\ pc[p] = "load"
  /\ raw' = [raw EXCEPT ![p] = "text"]
  /\ mem' = [mem EXCEPT ![p] = loadStore(readFile(storeFile[memoryFilePath(p)], FALSE))]
  /\ pc' = [pc EXCEPT ![p] = "mutate"]
  /\ UNCHANGED <<diskVars, op, arg, res, timing, updated, err, createdAt, snap,
                 nextId, clock, calls, commits, baseRev, faults>>

\* What compactStoreInPlace makes of the call's store and an archive content.
compactionAt(p, archive) ==
  compactStoreInPlace(mem[p].items, arg[p].maxItems, arg[p].summary, "manual",
                      archive, clock, nextId)

\* compactStoreInPlace up to the return of readArchiveFile (maintenance.ts
\* 82-127), or to its early return when there is nothing to archive (112-114).
ArchiveReadAt(p) ==
  /\ pc[p] = "mutate"
  /\ snap' = [snap EXCEPT ![p] = [store |-> storeFile[memoryFilePath(p)],
                                  archive |-> archiveFile]]
  /\ updated' = [updated EXCEPT ![p] = compactionAt(p, archiveFile).written]
  /\ res' = [res EXCEPT ![p] =
               IF compactionAt(p, archiveFile).written THEN res[p]
               ELSE [msg |-> "No compaction needed", archived |-> 0]]
  /\ pc' = [pc EXCEPT ![p] = IF compactionAt(p, archiveFile).written
                              THEN "archive" ELSE afterWriteFn(FALSE)]
  /\ UNCHANGED <<diskVars, op, arg, timing, raw, mem, err, createdAt, nextId,
                 clock, calls, commits, baseRev, faults>>

\* compactStoreInPlace from the push onto the archive it read to its return
\* (maintenance.ts 128-185): the archive is written from what was read.
ArchiveWriteAt(p) ==
  /\ pc[p] = "archive"
  /\ LET r == compactionAt(p, snap[p].archive) IN
       /\ archiveFile' = r.archive
       /\ mem' = [mem EXCEPT ![p].items = r.items]
       /\ res' = [res EXCEPT ![p] = [msg |-> "Archived", archived |-> r.archived]]
  /\ nextId' = nextId + 1
  /\ clock' = clock + 1
  /\ pc' = [pc EXCEPT ![p] = afterWriteFn(TRUE)]
  /\ UNCHANGED <<storeFile, lockFile, tmpFile, op, arg, timing, raw, updated, err,
                 createdAt, snap, calls, commits, baseRev, faults>>

\* atomicWriteJson of the call's memory file (storage.ts 115-117)
WriteAt(p) ==
  /\ pc[p] = "write"
  /\ mem' = [mem EXCEPT ![p] = bumpRevision(mem[p])]
  /\ storeFile' = [storeFile EXCEPT ![memoryFilePath(p)] = stringify(bumpRevision(mem[p]))]
  /\ pc' = [pc EXCEPT ![p] = "release"]
  /\ UNCHANGED <<archiveFile, lockFile, tmpFile, op, arg, res, timing, raw, updated,
                 err, createdAt, snap, nextId, clock, calls, commits, baseRev, faults>>

\* releaseLock of the call's lock file and the return (storage.ts 119-122)
ReleaseAt(p) ==
  /\ pc[p] = "release"
  /\ lockFile' = [lockFile EXCEPT ![memoryFilePath(p)] = releaseLock(p)]
  /\ pc' = [pc EXCEPT ![p] = "done"]
  /\ commits' = IF updated[p] THEN commits + 1 ELSE commits
  /\ Forget(p)
  /\ UNCHANGED <<storeFile, archiveFile, tmpFile, err, nextId, clock, calls,
                 baseRev, faults>>

NextPaths ==
  \E p \in Callers :
    \/ \E e \in EnvPaths, t \in BOOLEAN : BeginAt(p, e, t)
    \/ AcquireAt(p)
    \/ LoadAt(p)
    \/ ArchiveReadAt(p)
    \/ ArchiveWriteAt(p)
    \/ WriteAt(p)
    \/ ReleaseAt(p)

SpecPaths == InitPaths /\ [][NextPaths]_vars

\* ------------------------------------------------ runtime.ts: project root
\* A directory is the sequence of the names on the way to it from the
\* filesystem root.  A string given as a path is relative or absolute, with or
\* without white space around it; the empty and the blank string are the
\* relative path without names.
Undefined == [kind |-> "undefined", pad |-> FALSE, rel |-> TRUE, dirs |-> <<>>]
NotAString == [kind |-> "number", pad |-> FALSE, rel |-> TRUE, dirs |-> <<>>]
PathString(pad, rel, dirs) ==
  [kind |-> "string", pad |-> pad, rel |-> rel, dirs |-> dirs]

\* A string a path function returns: "" or an absolute path.
EmptyString == [dirs |-> <<>>, empty |-> TRUE]
AbsPath(dirs) == [dirs |-> dirs, empty |-> FALSE]

\* path.resolve(trimmed) in a process whose working directory is cwd
pathResolve(cwd, str) == AbsPath(IF str.rel THEN cwd \o str.dirs ELSE str.dirs)

\* str.trim() is not the empty string
NonBlank(str) == ~(str.rel /\ str.dirs = <<>>)

\* path.dirname(dir): the parent, the root for the root
dirname(dir) == IF dir = <<>> THEN dir ELSE SubSeq(dir, 1, Len(dir) - 1)

\* Mutant of normalizeProjectRoot: the input is ignored.
normalizeProjectRoot_none(projectRoot, cwd) == EmptyString

\* normalizeProjectRoot (runtime.ts 10-14)
normalizeProjectRoot(projectRoot, cwd) ==
  IF projectRoot.kind # "string" THEN EmptyString
  ELSE IF NonBlank(projectRoot) THEN pathResolve(cwd, projectRoot)
  ELSE EmptyString

\* stat.isDirectory() || stat.isFile() on what fs.stat(dir/.git) gives; "none"
\* when fs.stat throws (runtime.ts 29-36)
isMarker(stat) == stat \in {"dir", "file"}

\* The inputs of a resolution: the projectRoot option, MEMORY_PROJECT_ROOT,
\* the working directory (a directory at most MaxDepth deep) and, for each of
\* its ancestors (by depth), what .git is there.
Names == <<"a", "b", "c", "d", "e", "f">>
ProjectRootInputs ==
  {Undefined, NotAString}
  \cup {PathString(pad, rel, dirs) :
          pad \in BOOLEAN, rel \in BOOLEAN, dirs \in {<<>>, <<"x">>}}
EnvRootInputs ==
  {Undefined, PathString(TRUE, TRUE, <<>>), PathString(TRUE, TRUE, <<"y">>),
   PathString(FALSE, FALSE, <<"y">>)}
RootInputs ==
  {[projectRoot |-> i, envRoot |-> e, cwd |-> SubSeq(Names, 1, d), git |-> g] :
     i \in ProjectRootInputs, e \in EnvRootInputs,
     d \in {MaxDepth}, g \in [0..MaxDepth -> {"none", "dir", "file"}]}
  \cup
  {[projectRoot |-> Undefined, envRoot |-> Undefined, cwd |-> SubSeq(Names, 1, d),
    git |-> g] :
     d \in 0..MaxDepth, g \in [0..MaxDepth -> {"none", "dir", "file"}]}

\* In SpecRoot arg holds the inputs of the resolution in flight, mem the
\* directory the walk is at, res the root found.  One process resolves.
InitRoot ==
  /\ storeFile = NoFile
  /\ archiveFile = NoFile
  /\ lockFile = NoCaller
  /\ tmpFile = [p \in Callers |-> NoFile]
  /\ pc = [p \in Callers |-> IF p = Writer THEN "idle" ELSE "off"]
  /\ op = [p \in Callers |-> "none"]
  /\ \E a \in RootInputs : arg = [p \in Callers |-> a]
  /\ res = [p \in Callers |-> EmptyString]
  /\ started = [p \in Callers |-> 0]
  /\ delay = [p \in Callers |-> 0]
  /\ attempts = [p \in Callers |-> 0]
  /\ raw = [p \in Callers |-> "none"]
  /\ mem = [p \in Callers |-> <<>>]
  /\ updated = [p \in Callers |-> FALSE]
  /\ err = [p \in Callers |-> "none"]
  /\ createdAt = [p \in Callers |-> 0]
  /\ snap = [p \in Callers |-> [store |-> NoFile, archive |-> NoFile]]
  /\ nextId = 1
  /\ clock = 1
  /\ calls = 0
  /\ commits = 0
  /\ faults = 0
  /\ baseRev = 0

rootUnchanged ==
  UNCHANGED <<diskVars, op, arg, started, delay, raw, updated, err, createdAt,
              snap, nextId, clock, calls, commits, faults, baseRev>>

\* withStore's first statement (storage.ts 103-104) up to the first fs.stat
\* of findProjectRoot (runtime.ts 24-27): the projectRoot option when
\* normalizeProjectRoot gives a non-empty string, else MEMORY_PROJECT_ROOT when
\* it is set and not blank, else the walk starts at process.cwd().
ResolveStart(p) ==
  /\ pc[p] = "idle"
  /\ LET a == arg[p]
         explicit == normalizeProjectRoot(a.projectRoot, a.cwd)
     IN IF ~explicit.empty
          THEN /\ res' = [res EXCEPT ![p] = explicit]
               /\ pc' = [pc EXCEPT ![p] = "resolved"]
               /\ UNCHANGED mem
          ELSE IF a.envRoot.kind = "string" /\ NonBlank(a.envRoot)
            THEN /\ res' = [res EXCEPT ![p] = pathResolve(a.cwd, a.envRoot)]
                 /\ pc' = [pc EXCEPT ![p] = "resolved"]
                 /\ UNCHANGED mem
            ELSE /\ mem' = [mem EXCEPT ![p] = a.cwd]
                 /\ pc' = [pc EXCEPT ![p] = "walk"]
                 /\ UNCHANGED res
  /\ attempts' = [attempts EXCEPT ![p] = 0]
  /\ rootUnchanged

\* One turn of findProjectRoot's loop (runtime.ts 28-41)
WalkUp(p) ==
  /\ pc[p] = "walk"
  /\ LET dir == mem[p]
         parent == dirname(dir)
     IN IF isMarker(arg[p].git[Len(dir)])
          THEN /\ res' = [res EXCEPT ![p] = AbsPath(dir)]
               /\ pc' = [pc EXCEPT ![p] = "resolved"]
               /\ UNCHANGED mem
          ELSE IF parent = dir
            THEN /\ res' = [res EXCEPT ![p] = AbsPath(arg[p].cwd)]
                 /\ pc' = [pc EXCEPT ![p] = "resolved"]
                 /\ UNCHANGED mem
            ELSE /\ mem' = [mem EXCEPT ![p] = parent]
                 /\ UNCHANGED <<res, pc>>
  /\ attempts' = [attempts EXCEPT ![p] = @ + 1]
  /\ rootUnchanged

NextRoot == \E p \in Callers : ResolveStart(p) \/ WalkUp(p)

\* An async function that is awaited runs on: each fs.stat settles.
SpecRoot ==
  InitRoot /\ [][NextRoot]_vars /\ \A p \in Callers : WF_vars(ResolveStart(p) \/ WalkUp(p))

\* ------------------------------------------- storage.ts: the JSON round trip
\* JavaScript values as JSON.stringify and JSON.parse see them.  A number that
\* is NaN or an Infinity is JsNonFinite.  An object is a function from the
\* keys it has to their values.
JsUndefined == [t |-> "undefined", v |-> <<>>]
JsNull == [t |-> "null", v |-> <<>>]
JsNonFinite == [t |-> "nonfinite", v |-> <<>>]
JsNum(n) == [t |-> "num", v |-> n]
JsStr(str) == [t |-> "str", v |-> str]
JsBool(b) == [t |-> "bool", v |-> b]
JsArr(elems) == [t |-> "arr", v |-> elems]
JsObj(fields) == [t |-> "obj", v |-> fields]

\* obj[key]: undefined when the object has no such key
JsGet(obj, key) == IF key \in DOMAIN obj.v THEN obj.v[key] ELSE JsUndefined

\* Mutant of jsonStringify: a replacer that keeps the content fields of the
\* records and leaves out the document's revision.
RECURSIVE jsonStringify_noRevision(_)
jsonStringify_noRevision(val) ==
  IF val.t = "obj"
    THEN JsObj([k \in {k \in DOMAIN val.v : val.v[k].t # "undefined" /\ k # "revision"} |->
                  jsonStringify_noRevision(val.v[k])])
  ELSE IF val.t = "arr"
    THEN JsArr([i \in 1..Len(val.v) |->
                  IF val.v[i].t = "undefined" THEN JsNull
                  ELSE jsonStringify_noRevision(val.v[i])])
  ELSE IF val.t = "nonfinite" THEN JsNull
  ELSE val

\* JSON.stringify(obj, null, 2) (storage.ts 95), as the tree of the text it
\* writes: a key whose value is undefined is left out, undefined inside an
\* array and a non-finite number become null.
RECURSIVE jsonStringify(_)
jsonStringify(val) ==
  IF val.t = "obj"
    THEN JsObj([k \in {k \in DOMAIN val.v : val.v[k].t # "undefined"} |->
                  jsonStringify(val.v[k])])
  ELSE IF val.t = "arr"
    THEN JsArr([i \in 1..Len(val.v) |->
                  IF val.v[i].t = "undefined" THEN JsNull
                  ELSE jsonStringify(val.v[i])])
  ELSE IF val.t = "nonfinite" THEN JsNull
  ELSE val

\* The content of a file that holds the text of a JSON value.
JsonText(tree) == [kind |-> "text", tree |-> tree]

\* JSON.parse(raw) and what loadStore tests on the result (storage.ts 80-85):
\* a non-object, or the document with its version (0 when it is no number),
\* whether items and proposals are arrays, and the values it carries.
jsonParse(read) ==
  IF read.kind # "text" THEN read
  ELSE IF read.tree.t # "obj" THEN NotAnObject
  ELSE LET version == JsGet(read.tree, "version")
           items == JsGet(read.tree, "items")
           proposals == JsGet(read.tree, "proposals")
       IN StoreDoc(IF version.t = "num" THEN version.v ELSE 0,
                   items.t = "arr", proposals.t = "arr",
                   IF items.t = "arr" THEN items.v ELSE <<>>,
                   IF proposals.t = "arr" THEN proposals.v ELSE <<>>,
                   JsGet(read.tree, "revision"))

\* Memory items and proposals as JavaScript objects.  The handlers of tools.js
\* set every field; the hooks leave lastUsedAt out and may pass an undefined
\* pinned; a hand-edited file may carry anything.
JsItems ==
  {JsObj([id |-> JsStr("mem_a"), pinned |-> pinned, lastUsedAt |-> lastUsedAt,
          tags |-> JsArr(<<JsStr("x")>>)]) :
     pinned \in {JsBool(TRUE), JsUndefined},
     lastUsedAt \in {JsStr("t1"), JsUndefined}}
  \cup {JsObj([id |-> JsStr("mem_b"), pinned |-> JsBool(FALSE),
               tags |-> JsArr(<<>>)]),
        JsObj([id |-> JsStr("mem_c"), pinned |-> JsBool(FALSE),
               tags |-> JsArr(<<JsUndefined>>)])}

JsProposals ==
  {JsObj([id |-> JsStr("prop_a"), status |-> JsStr("pending"), reason |-> reason]) :
     reason \in {JsStr(""), JsUndefined}}

SeqsUpTo(S, n) == UNION {[1..k -> S] : k \in 0..n}

\* The stores atomicWriteJson may be handed: version 1, items, proposals, a
\* revision that is a number (possibly not finite) and a timestamp.
JsStores ==
  {JsObj([version |-> JsNum(1), items |-> JsArr(items),
          proposals |-> JsArr(proposals), revision |-> revision,
          updatedAt |-> JsStr("t2")]) :
     items \in SeqsUpTo(JsItems, MaxInitItems),
     proposals \in SeqsUpTo(JsProposals, 1),
     revision \in {JsNum(n) : n \in 0..MaxInitItems} \cup {JsNonFinite}}

\* One process is about to write a store it holds in memory; the others have
\* not read the file yet.
InitCodec ==
  \E w \in Callers :
    /\ storeFile = NoFile
    /\ archiveFile = NoFile
    /\ lockFile = w
    /\ tmpFile = [p \in Callers |-> NoFile]
    /\ pc = [p \in Callers |-> IF p = w THEN "stringify" ELSE "idle"]
    /\ op = [p \in Callers |-> "none"]
    /\ arg = [p \in Callers |-> NoArg]
    /\ res = [p \in Callers |-> NoRes]
    /\ started = [p \in Callers |-> 0]
    /\ delay = [p \in Callers |-> 0]
    /\ attempts = [p \in Callers |-> 0]
    /\ raw = [p \in Callers |-> "none"]
    /\ \E doc \in JsStores :
         mem = [p \in Callers |-> IF p = w THEN doc ELSE NotLoaded]
    /\ updated = [p \in Callers |-> p = w]
    /\ err = [p \in Callers |-> "none"]
    /\ createdAt = [p \in Callers |-> 0]
    /\ snap = [p \in Callers |-> [store |-> NoFile, archive |-> NoFile]]
    /\ nextId = MaxInitItems + 1
    /\ clock = MaxInitItems + 1
    /\ calls = 0
    /\ commits = 0
    /\ faults = 0
    /\ baseRev = 0

\* atomicWriteJson, first half (storage.ts 93-95): the text of the store goes
\* to the temp file.
AtomicWriteTmp(p) ==
  /\ pc[p] = "stringify"
  /\ tmpFile' = [tmpFile EXCEPT ![p] = JsonText(jsonStringify(mem[p]))]
  /\ pc' = [pc EXCEPT ![p] = "replace"]
  /\ UNCHANGED <<storeFile, archiveFile, lockFile, op, arg, res, timing, raw,
                 mem, updated, err, createdAt, snap, nextId, clock, calls,
                 commits, baseRev, faults>>

\* atomicWriteJson, second half (storage.ts 96), and the lock released.
AtomicWriteRename(p) ==
  /\ pc[p] = "replace"
  /\ storeFile' = tmpFile[p]
  /\ tmpFile' = [tmpFile EXCEPT ![p] = NoFile]
  /\ lockFile' = releaseLock(p)
  /\ pc' = [pc EXCEPT ![p] = "written"]
  /\ UNCHANGED <<archiveFile, op, arg, res, timing, raw, mem, updated, err,
                 createdAt, snap, nextId, clock, calls, commits, baseRev, faults>>

\* loadStore by a process that reads the file after the write (storage.ts 77-90)
LoadBack(q) ==
  /\ pc[q] = "idle"
  /\ lockFile = NoCaller
  /\ storeFile.kind = "text"
  /\ raw' = [raw EXCEPT ![q] = "text"]
  /\ mem' = [mem EXCEPT ![q] = loadStore(jsonParse(readFile(storeFile, FALSE)))]
  /\ pc' = [pc EXCEPT ![q] = "loaded"]
  /\ UNCHANGED <<diskVars, op, arg, res, timing, updated, err, createdAt, snap,
                 nextId, clock, calls, commits, baseRev, faults>>

NextCodec ==
  \E p \in Callers :
    \/ AtomicWriteTmp(p)
    \/ AtomicWriteRename(p)
    \/ LoadBack(p)

SpecCodec == InitCodec /\ [][NextCodec]_vars

\* ------------------------------------------------- domain.ts: normalizeTags
\* LIMITS.maxTags
maxTags == 20

\* String(value) of a JavaScript value
Digits == <<"0", "1", "2", "3", "4", "5", "6", "7", "8", "9">>
RECURSIVE decimal(_)
decimal(n) ==
  IF n < 10 THEN <<Digits[n + 1]>>
  ELSE Append(decimal(n \div 10), Digits[(n % 10) + 1])
RECURSIVE jsString(_)
jsString(val) ==
  CASE val.t = "str" -> val.v
    [] val.t = "num" -> decimal(val.v)
    [] val.t = "bool" -> IF val.v THEN <<"t", "r", "u", "e">>
                         ELSE <<"f", "a", "l", "s", "e">>
    [] val.t = "undefined" -> <<"u", "n", "d", "e", "f", "i", "n", "e", "d">>
    [] val.t = "null" -> <<"n", "u", "l", "l">>
    [] val.t = "arr" ->
         IF val.v = <<>> THEN <<>>
         ELSE LET first == IF val.v[1].t \in {"undefined", "null"} THEN <<>>
                           ELSE jsString(val.v[1])
              IN IF Len(val.v) = 1 THEN first
                 ELSE first \o <<",">> \o jsString(JsArr(Tail(val.v)))

\* What JavaScript takes for true in t || "" and in filter(Boolean)
truthy(val) ==
  CASE val.t = "str" -> val.v # <<>>
    [] val.t = "num" -> val.v # 0
    [] val.t = "bool" -> val.v
    [] val.t \in {"undefined", "null"} -> FALSE
    [] val.t \in {"arr", "obj"} -> TRUE

\* Mutant of fromSet: of equal strings the last one keeps its place.
RECURSIVE fromSet_keepLast(_)
fromSet_keepLast(strs) ==
  IF strs = <<>> THEN <<>>
  ELSE IF \E i \in 2..Len(strs) : strs[i] = strs[1]
    THEN fromSet_keepLast(Tail(strs))
    ELSE <<strs[1]>> \o fromSet_keepLast(Tail(strs))

\* Array.from(new Set(norm)) (domain.ts 11): a Set keeps its members in the
\* order of their first insertion.
RECURSIVE fromSet(_)
fromSet(strs) ==
  IF strs = <<>> THEN <<>>
  ELSE LET front == fromSet(SubSeq(strs, 1, Len(strs) - 1))
           last == strs[Len(strs)]
       IN IF \E i \in 1..Len(front) : front[i] = last THEN front
          ELSE Append(front, last)

\* normalizeTags (domain.ts 6-12)
normalizeTags(tags) ==
  LET arr == IF tags.t = "arr" THEN tags.v ELSE <<>>
      mapped == [i \in 1..Len(arr) |->
                   toLowerCase(trim(jsString(IF truthy(arr[i]) THEN arr[i]
                                             ELSE JsStr(<<>>))))]
      norm == SelectSeq(mapped, LAMBDA str : str # <<>>)
      uniq == fromSet(norm)
  IN SubSeq(uniq, 1, Min(maxTags, Len(uniq)))

\* The tags arguments tried: up to MaxMess values of every kind, tags with
\* capital letters and white space around them, equal tags, followed by a run
\* of the numbers 1..n as tags, n around maxTags; and arguments that are no
\* arrays.
TagValues ==
  {JsUndefined, JsNull, JsStr(<<>>), JsStr(<<" ", "\t">>),
   JsStr(<<" ", "A", "b", " ">>), JsStr(<<"a", "b">>), JsStr(<<"a", " ", "B">>),
   JsNum(0), JsNum(5), JsStr(<<"5", "\n">>), JsBool(TRUE), JsBool(FALSE),
   JsArr(<<>>), JsArr(<<JsStr(<<"A", "b">>)>>)}
RunOf(n) == [i \in 1..n |-> JsNum(i)]
TagInputs ==
  {JsUndefined, JsStr(<<"a", "b">>), JsObj(<<>>)}
  \cup {JsArr(mess \o RunOf(n)) :
          mess \in UNION {[1..k -> TagValues] : k \in 0..MaxMess},
          n \in {0, maxTags - 1, maxTags, maxTags + 1}}

\* Every variable but storeFile and arg as it is before a function runs that
\* takes an argument and reads a file; arg holds the argument.
InitPureOn(files, inputs) ==
  /\ storeFile \in files
  /\ archiveFile = NoFile
  /\ lockFile = NoCaller
  /\ tmpFile = [p \in Callers |-> NoFile]
  /\ pc = [p \in Callers |-> IF p = Writer THEN "idle" ELSE "off"]
  /\ op = [p \in Callers |-> "none"]
  /\ \E a \in inputs : arg = [p \in Callers |-> a]
  /\ res = [p \in Callers |-> <<>>]
  /\ started = [p \in Callers |-> 0]
  /\ delay = [p \in Callers |-> 0]
  /\ attempts = [p \in Callers |-> 0]
  /\ raw = [p \in Callers |-> "none"]
  /\ mem = [p \in Callers |-> <<>>]
  /\ updated = [p \in Callers |-> FALSE]
  /\ err = [p \in Callers |-> "none"]
  /\ createdAt = [p \in Callers |-> 0]
  /\ snap = [p \in Callers |-> [store |-> NoFile, archive |-> NoFile]]
  /\ nextId = 1
  /\ clock = 1
  /\ calls = 0
  /\ commits = 0
  /\ faults = 0
  /\ baseRev = 0

InitPure(inputs) == InitPureOn({NoFile}, inputs)

\* In SpecTags arg holds the tags argument, res what normalizeTags returns for
\* it and mem what it returns for that result.
InitTags == InitPure(TagInputs)

pureUnchanged ==
  UNCHANGED <<diskVars, op, arg, started, delay, attempts, raw, updated, err,
              createdAt, snap, nextId, clock, calls, commits, faults, baseRev>>

\* tags: normalizeTags(tags) (tools.js 282)
NormalizeTags(p) ==
  /\ pc[p] = "idle"
  /\ res' = [res EXCEPT ![p] = normalizeTags(arg[p])]
  /\ pc' = [pc EXCEPT ![p] = "normalized"]
  /\ UNCHANGED mem
  /\ pureUnchanged

\* normalizeTags on tags it returned before: the tags of a proposal, edited
\* with the same list (tools.js 384)
NormalizeAgain(p) ==
  /\ pc[p] = "normalized"
  /\ mem' = [mem EXCEPT ![p] =
               normalizeTags(JsArr([i \in 1..Len(res[p]) |-> JsStr(res[p][i])]))]
  /\ pc' = [pc EXCEPT ![p] = "again"]
  /\ UNCHANGED res
  /\ pureUnchanged

NextTags == \E p \in Callers : NormalizeTags(p) \/ NormalizeAgain(p)

SpecTags == InitTags /\ [][NextTags]_vars

\* --------------------------------------------------- hooks/cursor.ts: cursor
\* LIMITS.maxCursorHashes
maxCursorHashes == 200

\* DEFAULTS (cursor.ts 6), the two fields loadCursor returns
DEFAULTS == [lastLineIndex |-> JsNum(-1), itemHashes |-> JsArr(<<>>)]

\* data.key: a TypeError on null, undefined on a value that has no such
\* property
HasProps(data) == data.t \notin {"null", "undefined"}
Prop(data, key) == IF data.t = "obj" THEN JsGet(data, key) ELSE JsUndefined

\* value ?? fallback
Nullish(val, fallback) == IF val.t \in {"null", "undefined"} THEN fallback ELSE val

\* Mutant of loadCursor: the session id is not compared.
loadCursor_anySession(read, sessionId) ==
  IF read.kind # "text" \/ ~HasProps(read.tree) THEN DEFAULTS
  ELSE [lastLineIndex |-> Nullish(Prop(read.tree, "lastLineIndex"), JsNum(-1)),
        itemHashes |-> Nullish(Prop(read.tree, "itemHashes"), JsArr(<<>>))]

\* loadCursor (cursor.ts 8-31) on what readFile gives: a throw of readFile
\* (missing file, I/O error), of JSON.parse (no JSON text) or of data.sessionId
\* (the text null) ends in the catch.
loadCursor(read, sessionId) ==
  IF read.kind # "text" \/ ~HasProps(read.tree) THEN DEFAULTS
  ELSE LET data == read.tree
       IN IF Prop(data, "sessionId") # JsStr(sessionId)
            THEN [lastLineIndex |-> JsNum(-1),
                  itemHashes |-> Nullish(Prop(data, "itemHashes"), JsArr(<<>>))]
            ELSE [lastLineIndex |-> Nullish(Prop(data, "lastLineIndex"), JsNum(-1)),
                  itemHashes |-> Nullish(Prop(data, "itemHashes"), JsArr(<<>>))]

\* itemHashes.slice(-LIMITS.maxCursorHashes) (cursor.ts 39)
lastHashes(itemHashes) ==
  SubSeq(itemHashes, Max(1, Len(itemHashes) - maxCursorHashes + 1), Len(itemHashes))

\* saveCursor (cursor.ts 33-48): the text written to the cursor file
saveCursor(sessionId, lastLineIndex, itemHashes, now) ==
  JsonText(jsonStringify(JsObj([sessionId |-> JsStr(sessionId),
                                lastLineIndex |-> JsNum(lastLineIndex),
                                itemHashes |-> JsArr(lastHashes(itemHashes)),
                                updatedAt |-> JsStr(decimal(now))])))

\* payload.session_id ?? "unknown" (auto-memory.ts 103)
SessionIds == {<<"s", "1">>, <<"s", "2">>, <<"u", "n", "k", "n", "o", "w", "n">>}

\* allLines.length - 1 of a transcript (auto-memory.ts 117)
LineIndexes == {0, 3}

\* titleHash values: n of them
HashRun(n) == [i \in 1..n |-> JsStr(<<"h">> \o decimal(i))]

\* The cursor file at the start of a hook run: missing, cut short, no JSON,
\* the JSON texts null, 5 and {}, a cursor without hashes, and cursors earlier
\* runs saved, one of them with maxCursorHashes hashes.
CursorFiles ==
  {NoFile, Partial, Garbage, JsonText(JsNull), JsonText(JsNum(5)),
   JsonText(JsObj(<<>>)),
   JsonText(JsObj([sessionId |-> JsStr(<<"s", "1">>), lastLineIndex |-> JsNum(3)])),
   saveCursor(<<"s", "1">>, 3, HashRun(2), 0),
   saveCursor(<<"s", "2">>, 0, HashRun(maxCursorHashes), 0)}

\* In SpecCursor storeFile is the cursor file, arg the session id of the hook
\* run and res the cursor it loaded.
InitCursor == InitPureOn(CursorFiles, SessionIds)

cursorUnchanged ==
  UNCHANGED <<archiveFile, lockFile, tmpFile, op, started, delay, attempts, mem,
              updated, err, createdAt, snap, nextId, commits, baseRev>>

\* handleStop up to loadCursor's return (auto-memory.ts 102-109)
LoadCursor(p, sessionId) ==
  /\ pc[p] = "idle"
  /\ calls < MaxCalls
  /\ arg' = [arg EXCEPT ![p] = sessionId]
  /\ raw' = [raw EXCEPT ![p] = storeFile.kind]
  /\ res' = [res EXCEPT ![p] = loadCursor(storeFile, sessionId)]
  /\ pc' = [pc EXCEPT ![p] = "loaded"]
  /\ calls' = calls + 1
  /\ clock' = clock + 1
  /\ UNCHANGED <<storeFile, faults>>
  /\ cursorUnchanged

\* The same with a readFile that throws on a file that is there.
LoadCursorUnreadable(p, sessionId) ==
  /\ pc[p] = "idle"
  /\ calls < MaxCalls
  /\ faults < MaxFaults
  /\ storeFile.kind # "missing"
  /\ arg' = [arg EXCEPT ![p] = sessionId]
  /\ raw' = [raw EXCEPT ![p] = IOError.kind]
  /\ res' = [res EXCEPT ![p] = loadCursor(IOError, sessionId)]
  /\ pc' = [pc EXCEPT ![p] = "loaded"]
  /\ calls' = calls + 1
  /\ clock' = clock + 1
  /\ faults' = faults + 1
  /\ UNCHANGED storeFile
  /\ cursorUnchanged

\* handleStop's return without a save (auto-memory.ts 112-113)
NothingNew(p) ==
  /\ pc[p] = "loaded"
  /\ pc' = [pc EXCEPT ![p] = "idle"]
  /\ UNCHANGED <<storeFile, arg, res, raw, calls, clock, faults>>
  /\ cursorUnchanged

\* handleStop's saveCursor calls (auto-memory.ts 117, 123, 140, 171) with the
\* hashes loaded and fresh new hashes behind them
SaveCursor(p, lastLineIndex, fresh) ==
  /\ pc[p] = "loaded"
  /\ res[p].itemHashes.t = "arr"
  /\ LET newHashes == res[p].itemHashes.v
                      \o [i \in 1..fresh |-> JsStr(<<"n">> \o decimal(clock) \o decimal(i))]
     IN storeFile' = saveCursor(arg[p], lastLineIndex, newHashes, clock)
  /\ pc' = [pc EXCEPT ![p] = "idle"]
  /\ UNCHANGED <<arg, res, raw, calls, clock, faults>>
  /\ cursorUnchanged

\* The hook process is killed inside writeFile: the file holds a part of the
\* text.
SaveCursorCut(p) ==
  /\ pc[p] = "loaded"
  /\ faults < MaxFaults
  /\ storeFile' = Partial
  /\ faults' = faults + 1
  /\ pc' = [pc EXCEPT ![p] = "idle"]
  /\ UNCHANGED <<arg, res, raw, calls, clock>>
  /\ cursorUnchanged

NextCursor ==
  \E p \in {Writer} :
    \/ \E s \in SessionIds : LoadCursor(p, s)
    \/ \E s \in SessionIds : LoadCursorUnreadable(p, s)
    \/ NothingNew(p)
    \/ \E i \in LineIndexes, n \in 0..2 : SaveCursor(p, i, n)
    \/ SaveCursorCut(p)

SpecCursor == InitCursor /\ [][NextCursor]_vars
\* ------------------------------------------- hooks/auto-memory.ts: stop hook
\* titleHash (auto-memory.ts 58-60): 16 hex digits of the SHA-256 of the
\* title, taken as free of collisions: the title behind a mark.
titleHash(title) == JsStr(<<"#">> \o title)

\* jaccardSimilarity(a, b) > 0.8 (auto-memory.ts 62-68, 149) for titles that
\* are one word or empty: split(/\s+/) gives one token each.
similar(a, b) ==
  LET setA == {toLowerCase(a)}
      setB == {toLowerCase(b)}
  IN Cardinality(setA \cap setB) * 10 > 8 * Cardinality(setA \cup setB)

\* existing.title ?? "" (auto-memory.ts 149)
titleOf(item) == IF "title" \in DOMAIN item THEN item.title ELSE <<>>

\* The loop over the candidates (auto-memory.ts 127-137): the titles whose
\* hash the cursor does not hold yet, and the hashes with theirs behind.
RECURSIVE novel(_, _, _)
novel(newHashes, toSave, candidates) ==
  IF candidates = <<>> THEN [newHashes |-> newHashes, toSave |-> toSave]
  ELSE IF \E i \in 1..Len(newHashes) : newHashes[i] = titleHash(Head(candidates))
    THEN novel(newHashes, toSave, Tail(candidates))
    ELSE novel(Append(newHashes, titleHash(Head(candidates))),
               Append(toSave, Head(candidates)), Tail(candidates))

\* handleStop from loadCursor's return to the call of withStore
\* (auto-memory.ts 109-142): where the run goes, what it will save, and the
\* hashes it will write to the cursor.  last is allLines.length - 1, enough
\* tells whether the new lines hold two assistant messages.
handleStop(cursor, last, enough, candidates) ==
  LET n == novel(cursor.itemHashes.v, <<>>, candidates)
  IN IF cursor.lastLineIndex.v + 1 >= last + 1
       THEN [next |-> "done", toSave |-> <<>>, newHashes |-> cursor.itemHashes.v]
     ELSE IF ~enough \/ candidates = <<>>
       THEN [next |-> "cursor", toSave |-> <<>>, newHashes |-> cursor.itemHashes.v]
     ELSE IF n.toSave = <<>>
       THEN [next |-> "cursor", toSave |-> <<>>, newHashes |-> n.newHashes]
     ELSE [next |-> "acquire", toSave |-> n.toSave, newHashes |-> n.newHashes]

\* The writeFn of the hook (auto-memory.ts 145-167): every title that no item
\* of the store resembles is pushed as an item without lastUsedAt; nothing
\* compacts.
RECURSIVE pushAll(_, _, _, _)
pushAll(items, toSave, freshId, now) ==
  IF toSave = <<>> THEN items
  ELSE IF \E i \in 1..Len(items) : similar(titleOf(items[i]), Head(toSave))
    THEN pushAll(items, Tail(toSave), freshId, now)
    ELSE pushAll(Append(items,
                        [title |-> Head(toSave)]
                          @@ MemoryItem(newId(freshId), now, now, 0, FALSE,
                                        "auto-hook", 0, validateType(NoInput))),
                 Tail(toSave), freshId + 1, now)

\* Mutant of afterWithStore: saveCursor sits in a finally block.
afterWithStore_finally(e) == "cursor"

\* await withStore(...) (auto-memory.ts 144-169): the statement behind it is
\* reached when withStore returns, and not when it throws.
afterWithStore(e) == IF e = "none" THEN "cursor" ELSE "failed"

\* The hook runs made, as <<session id, allLines.length - 1, whether the new
\* lines hold two assistant messages, titles extracted>>: a first save, a
\* title seen before with a new one, a title of another session that differs
\* in case only, too few assistant messages, and no candidate.
HookRuns ==
  {<<<<"s", "1">>, 0, TRUE, <<<<"a">>>>>>,
   <<<<"s", "1">>, 3, TRUE, <<<<"a">>, <<"b">>>>>>,
   <<<<"s", "2">>, 3, TRUE, <<<<"A">>>>>>,
   <<<<"s", "1">>, 3, FALSE, <<<<"b">>>>>>,
   <<<<"s", "2">>, 0, TRUE, <<>>>>}

\* In SpecHook archiveFile is the cursor file .ai/.auto-save-cursor.json (no
\* hook touches the archive), arg is what the run found (session id, last
\* line index, titles to save) and res the hashes it will write.  No hook has
\* run yet: there is no cursor file.  Another process may be inside a call of
\* a read-only tool.
InitHook == InitLock

\* handleStop up to the call of withStore and the first loop test of
\* acquireLock, or up to its early return (auto-memory.ts 102-142).
HookBegin(p, sessionId, last, enough, candidates) ==
  /\ pc[p] \in {"idle", "done"} \/ (pc[p] = "failed" /\ op[p] = "none")
  /\ calls < MaxCalls
  /\ calls' = calls + 1
  /\ LET h == handleStop(loadCursor(archiveFile, sessionId), last, enough, candidates)
         over == h.next = "done"
     IN /\ pc' = [pc EXCEPT ![p] = h.next]
        /\ op' = [op EXCEPT ![p] = IF over THEN "none" ELSE "hook"]
        /\ arg' = [arg EXCEPT ![p] = IF over THEN NoArg
                                     ELSE [session |-> sessionId, last |-> last,
                                           toSave |-> h.toSave]]
        /\ res' = [res EXCEPT ![p] = IF over THEN NoRes
                                     ELSE [newHashes |-> h.newHashes]]
        /\ delay' = [delay EXCEPT ![p] = IF h.next = "acquire"
                                           THEN lockRetryDelayMs ELSE 0]
  /\ err' = [err EXCEPT ![p] = "none"]
  /\ UNCHANGED <<diskVars, started, attempts, raw, mem, updated, createdAt, snap,
                 nextId, clock, commits, baseRev, faults>>

\* the writeFn of the hook and withStore's test of its result
\* (auto-memory.ts 145-167, storage.ts 113-114)
MutateHook(p) ==
  /\ pc[p] = "mutate"
  /\ op[p] = "hook"
  /\ LET items == pushAll(mem[p].items, arg[p].toSave, nextId, clock)
         saved == Len(items) - Len(mem[p].items)
     IN /\ mem' = [mem EXCEPT ![p].items = items]
        /\ nextId' = nextId + saved
        /\ updated' = [updated EXCEPT ![p] = saved > 0]
        /\ pc' = [pc EXCEPT ![p] = afterWriteFn(saved > 0)]
  /\ clock' = clock + 1
  /\ UNCHANGED <<diskVars, op, arg, res, timing, raw, err, createdAt, snap,
                 calls, commits, baseRev, faults>>

\* finally { releaseLock } and withStore's return or throw into handleStop
\* (storage.ts 119-122, auto-memory.ts 144)
ReleaseHook(p) ==
  /\ pc[p] = "release"
  /\ op[p] = "hook"
  /\ lockFile' = releaseLock(p)
  /\ pc' = [pc EXCEPT ![p] = afterWithStore(err[p])]
  /\ commits' = IF err[p] = "none" /\ updated[p] THEN commits + 1 ELSE commits
  /\ tmpFile' = [tmpFile EXCEPT ![p] = NoFile]
  /\ UNCHANGED <<storeFile, archiveFile, op, arg, res, timing, raw, mem, updated,
                 err, createdAt, snap, nextId, clock, calls, baseRev, faults>>

\* saveCursor and handleStop's return (auto-memory.ts 117, 123, 140, 171)
HookSaveCursor(p) ==
  /\ pc[p] = "cursor"
  /\ archiveFile' = saveCursor(arg[p].session, arg[p].last, res[p].newHashes, clock)
  /\ clock' = clock + 1
  /\ pc' = [pc EXCEPT ![p] = "done"]
  /\ Forget(p)
  /\ UNCHANGED <<storeFile, lockFile, tmpFile, err, nextId, calls, commits,
                 baseRev, faults>>

\* withStore threw: main().catch(() => process.exit(0)) (auto-memory.ts 188)
HookThrow(p) ==
  /\ pc[p] = "failed"
  /\ op[p] = "hook"
  /\ pc' = [pc EXCEPT ![p] = "idle"]
  /\ Forget(p)
  /\ UNCHANGED <<diskVars, err, nextId, clock, calls, commits, baseRev, faults>>

\* One process runs the hook, time after time; a write of the store may fail,
\* and behind a call that holds the lock the run waits until its budget is
\* used up.
NextHook ==
  \E p \in Callers :
    \/ p = Writer /\ \E r \in HookRuns : HookBegin(p, r[1], r[2], r[3], r[4])
    \/ AcquireOk(p)
    \/ AcquireRetryOnTime(p)
    \/ AcquireRetryToBudget(p)
    \/ AcquireTimeout(p)
    \/ Load(p)
    \/ MutateStatus(p)
    \/ MutateHook(p)
    \/ WriteTmp(p)
    \/ WriteTmpFail(p)
    \/ Rename(p)
    \/ op[p] # "hook" /\ Release(p)
    \/ ReleaseHook(p)
    \/ HookSaveCursor(p)
    \/ HookThrow(p)

SpecHook == InitHook /\ [][NextHook]_vars
\* ------------------------------- storage.ts: withStore on what loadStore accepts
\* emptyStore (storage.ts 61-75) as a JavaScript object
emptyStoreJs(now) ==
  JsObj([version |-> JsNum(1),
         project |-> JsObj([id |-> JsStr(<<"i", "d">>), root |-> JsStr(<<"/">>),
                            memoryFile |-> JsStr(<<"m">>),
                            createdAt |-> JsStr(decimal(now)),
                            updatedAt |-> JsStr(decimal(now))]),
         items |-> JsArr(<<>>), proposals |-> JsArr(<<>>), revision |-> JsNum(0)])

\* loadStore (storage.ts 77-90) as the object it returns: the parsed document
\* when it passes the tests, a new empty store otherwise.
loadStoreJs(read, now) ==
  IF read.kind = "text" /\ jsonParse(read).kind = "json"
       /\ loadStore(jsonParse(read)) = jsonParse(read)
    THEN read.tree
    ELSE emptyStoreJs(now)

\* store.project.updatedAt = nowIso() (storage.ts 115) in module code, which is
\* strict: a TypeError when store.project is undefined, null or a primitive.
projectThrows(store) == JsGet(store, "project").t \notin {"obj", "arr"}
touchProject(store, now) ==
  IF JsGet(store, "project").t = "obj"
    THEN JsObj([k \in DOMAIN store.v |->
                  IF k = "project"
                    THEN JsObj([j \in DOMAIN store.v[k].v \cup {"updatedAt"} |->
                                  IF j = "updatedAt" THEN JsStr(decimal(now))
                                  ELSE store.v[k].v[j]])
                    ELSE store.v[k]])
    ELSE store

\* store.revision = (store.revision || 0) + 1 (storage.ts 116): + adds
\* numbers and appends to a string.
revisionJs(store) ==
  LET revision == JsGet(store, "revision")
  IN IF ~truthy(revision) THEN JsNum(1)
     ELSE IF revision.t = "num" THEN JsNum(revision.v + 1)
     ELSE IF revision.t = "bool" THEN JsNum(2)
     ELSE JsStr(jsString(revision) \o <<"1">>)
bumpRevisionJs(store) ==
  JsObj([k \in DOMAIN store.v \cup {"revision"} |->
           IF k = "revision" THEN revisionJs(store) ELSE store.v[k]])

\* Store files: none, no JSON, and documents of version 1 and 2 with and
\* without a project descriptor and a revision, as hand edits, imports and
\* other programs leave them.
JsProjects ==
  {JsUndefined, JsNull, JsStr(<<"p">>),
   JsObj([id |-> JsStr(<<"i", "d">>)]),
   JsObj([id |-> JsStr(<<"i", "d">>), updatedAt |-> JsStr(<<"0">>)])}
JsRevisions == {JsUndefined, JsNull, JsNum(0), JsNum(3), JsStr(<<"7">>)}
AcceptFiles ==
  {NoFile, Garbage} \cup
  {JsonText(JsObj([k \in {"version", "items", "proposals"}
                        \cup (IF project.t = "undefined" THEN {} ELSE {"project"})
                        \cup (IF revision.t = "undefined" THEN {} ELSE {"revision"}) |->
                     CASE k = "version" -> JsNum(version)
                       [] k = "items" -> items
                       [] k = "proposals" -> JsArr(<<>>)
                       [] k = "project" -> project
                       [] k = "revision" -> revision])) :
     version \in 1..2, items \in {JsArr(<<>>), JsNull},
     project \in JsProjects, revision \in JsRevisions}

InitAccept == InitPureOn(AcceptFiles, {NoArg})

\* withStore up to the return of loadStore (storage.ts 103-112), by a process
\* that finds the lock free.  raw tells whether the document passed the tests.
AcceptLoad(p) ==
  /\ pc[p] = "idle"
  /\ tryAcquireLock(p)
  /\ lockFile' = p
  /\ snap' = [snap EXCEPT ![p] = [store |-> storeFile, archive |-> archiveFile]]
  /\ mem' = [mem EXCEPT ![p] = loadStoreJs(storeFile, clock)]
  /\ raw' = [raw EXCEPT ![p] = IF loadStoreJs(storeFile, clock) = emptyStoreJs(clock)
                                 THEN "init" ELSE "text"]
  /\ clock' = clock + 1
  /\ calls' = calls + 1
  /\ pc' = [pc EXCEPT ![p] = "mutate"]
  /\ UNCHANGED <<storeFile, archiveFile, tmpFile, op, arg, res, timing, updated,
                 err, createdAt, nextId, commits, faults, baseRev>>

\* A writeFn that returns true, and the write (storage.ts 113-117)
AcceptWrite(p) ==
  /\ pc[p] = "mutate"
  /\ updated' = [updated EXCEPT ![p] = TRUE]
  /\ IF projectThrows(mem[p])
       THEN /\ err' = [err EXCEPT ![p] = "type"]
            /\ UNCHANGED <<storeFile, mem>>
       ELSE /\ mem' = [mem EXCEPT ![p] = bumpRevisionJs(touchProject(mem[p], clock))]
            /\ storeFile' = JsonText(jsonStringify(
                                bumpRevisionJs(touchProject(mem[p], clock))))
            /\ UNCHANGED err
  /\ clock' = clock + 1
  /\ pc' = [pc EXCEPT ![p] = "release"]
  /\ UNCHANGED <<archiveFile, lockFile, tmpFile, op, arg, res, timing, raw,
                 createdAt, snap, nextId, calls, commits, faults, baseRev>>

\* finally { releaseLock } and the return or the throw (storage.ts 118-122)
AcceptRelease(p) ==
  /\ pc[p] = "release"
  /\ lockFile' = releaseLock(p)
  /\ pc' = [pc EXCEPT ![p] = IF err[p] = "none" THEN "done" ELSE "failed"]
  /\ commits' = IF err[p] = "none" THEN commits + 1 ELSE commits
  /\ UNCHANGED <<storeFile, archiveFile, tmpFile, op, arg, res, timing, raw, mem,
                 updated, err, createdAt, snap, nextId, clock, calls, faults,
                 baseRev>>

NextAccept ==
  \E p \in {Writer} :
    \/ AcceptLoad(p)
    \/ AcceptWrite(p)
    \/ AcceptRelease(p)

SpecAccept == InitAccept /\ [][NextAccept]_vars



\* ================================================================== claims
InCritical(p) == pc[p] \in Holding
WellFormed(file) ==
  file.kind = "json" /\ file.version = 1 /\ file.hasItems /\ file.hasProposals
Loadable(file) == file.kind = "missing" \/ WellFormed(file)

\* C1: overlapping withStore calls are serialized by the lock: at most one
\* caller is between acquireLock and releaseLock, a caller about to run its
\* writeFn holds exactly what the last committed write left in the store file,
\* and every write replaces the content its writer saw when it got the lock
\* (no committed change is overwritten unseen).
C1_Serialized ==
  /\ [](\A p, q \in Callers : InCritical(p) /\ InCritical(q) => p = q)
  /\ [](\A p \in Callers :
          pc[p] = "mutate" =>
            /\ storeFile.kind = "json" => mem[p] = storeFile
            /\ storeFile.kind = "missing" =>
                 mem[p].items = <<>> /\ mem[p].revision = 0)
  /\ [][storeFile' # storeFile =>
          \E p \in Callers : pc[p] = "rename" /\ snap[p].store = storeFile]_vars

\* a caller that found the lock taken, retried, and now holds a store that
\* carries a commit made in this behaviour
C1_Witness ==
  \E p \in Callers :
    pc[p] = "mutate" /\ attempts[p] >= 2 /\ mem[p].revision > baseRev

\* C2: the persisted revision equals the initial one plus the number of calls
\* that completed with writeFn = true (plus the call that has renamed and is
\* about to return).
RevOnDisk == IF storeFile.kind = "json" THEN storeFile.revision ELSE 0
Returning ==
  {p \in Callers : pc[p] = "release" /\ updated[p] /\ err[p] = "none"}
C2_RevisionCount == RevOnDisk = baseRev + commits + Cardinality(Returning)

C2_Witness ==
  /\ commits = MaxCalls
  /\ \A p \in Callers : pc[p] \in {"idle", "done"}

\* C3: a call whose writeFn returns false writes nothing: it never reaches the
\* write, and when it returns the store file is what it was when the call got
\* the lock (a missing file is still missing).
C3_ReadOnlyNoWrite ==
  [][\A p \in Callers :
       (pc[p] = "release" /\ ~updated[p] /\ err[p] = "none" /\ pc'[p] = "done")
         => storeFile' = snap[p].store /\ tmpFile[p] = NoFile]_vars

\* a read-only call about to return on a project that has no store file
C3_Witness ==
  \E p \in Callers :
    pc[p] = "release" /\ op[p] = "status" /\ storeFile = NoFile

C5_TimeoutTouchesNothing ==
  [][\A p \in Callers :
       (pc[p] = "acquire" /\ pc'[p] = "failed")
         => /\ err'[p] = "timeout"
            /\ raw[p] = "none" /\ mem[p] = NotLoaded /\ ~updated[p]
            /\ UNCHANGED diskVars]_vars

\* a call timed out while the caller that holds the lock is still at work
C5_Witness ==
  \E p, q \in Callers :
    /\ pc[p] = "failed" /\ err[p] = "timeout"
    /\ InCritical(q) /\ lockFile = q

\* C6: once the holder of the lock has died, the lock file stays, nobody gets
\* the lock, the store file no longer changes, and a call can only end by
\* timing out.
StaleLock == lockFile # NoCaller /\ pc[lockFile] = "crashed"
C6_StaleLockStays ==
  [][StaleLock =>
       /\ lockFile' = lockFile
       /\ storeFile' = storeFile
       /\ \A q \in Callers :
            /\ ~InCritical(q)'
            /\ (pc[q] = "acquire" /\ pc'[q] # "acquire")
                 => pc'[q] = "failed" /\ err'[q] = "timeout"]_vars

\* the holder has died and another call has timed out
C6_Witness ==
  /\ StaleLock
  /\ \E q \in Callers : pc[q] = "failed" /\ err[q] = "timeout"

\* C7: loadStore raises nothing; it gives the document on disk when that is a
\* version-1 document with items and proposals arrays and the read succeeded,
\* and a fresh empty store in every other case.
C7_LoadNeverThrows ==
  [][\A p \in Callers :
       pc[p] = "load" =>
         /\ pc'[p] \in {"load", "mutate"}
         /\ err'[p] = "none"
         /\ pc'[p] = "mutate" =>
              IF raw'[p] = "text" /\ WellFormed(storeFile)
                THEN mem'[p] = storeFile
                ELSE /\ mem'[p].items = <<>>
                     /\ mem'[p].proposals = <<>>
                     /\ mem'[p].revision = 0
                     /\ mem'[p].version = 1]_vars

\* a version-2 document was read and a fresh store is in memory
C7_Witness ==
  \E p \in Callers :
    /\ pc[p] = "mutate" /\ raw[p] = "text"
    /\ storeFile.kind = "json" /\ storeFile.version = 2
    /\ mem[p].items = <<>> /\ mem[p].revision = 0

\* C8 (as claimed): a read or write of the store that fails with an errno
\* other than ENOENT ends the call with an error, and a call that returns
\* normally has dropped no item the store held when it got the lock.
ItemIds(file) == IF file.kind = "json" THEN IdsOf(file.items) ELSE {}
C8_FsErrorsPropagate ==
  [][\A p \in Callers :
       /\ (pc[p] = "load" /\ raw'[p] = "ioerror") => err'[p] # "none"
       /\ (pc[p] = "release" /\ pc'[p] = "done")
            => ItemIds(snap[p].store) \subseteq
                 ItemIds(storeFile') \cup ItemIds(archiveFile')]_vars

\* C9 (as claimed): a call that ends with an error has changed neither the
\* store file nor the archive file.
C9_FailedCallChangedNothing ==
  [][\A p \in Callers :
       (pc[p] \in Holding \cup {"acquire"} /\ pc'[p] = "failed")
         => IF pc[p] = "acquire"
              THEN storeFile' = storeFile /\ archiveFile' = archiveFile
              ELSE storeFile' = snap[p].store
                     /\ archiveFile' = snap[p].archive]_vars

\* C10: the store path never holds a partial document; its content changes
\* only by a rename that puts the complete new document there; a crash leaves
\* it as it was, and loadable.
C10_AtomicReplace ==
  /\ [](storeFile.kind # "partial" /\ Loadable(storeFile))
  /\ [][storeFile' # storeFile =>
          \E p \in Callers :
            pc[p] = "rename" /\ storeFile' = stringify(mem[p])]_vars
  /\ [][\A p \in Callers :
          (pc[p] # "crashed" /\ pc'[p] = "crashed") => storeFile' = storeFile]_vars

\* a process died between its temp-file write and the rename
C10_Witness ==
  \E p \in Callers :
    /\ pc[p] = "crashed"
    /\ tmpFile[p].kind = "json"
    /\ tmpFile[p] # storeFile
    /\ Loadable(storeFile)

\* C11: round trip.  A store document that is valid (its revision a finite
\* number, no undefined element inside an array), written by atomicWriteJson
\* and then loaded, gives the same items, the same proposals (every field of
\* every record reads the same) and the same revision.
RECURSIVE JsonSafe(_)
JsonSafe(val) ==
  IF val.t = "obj" THEN \A k \in DOMAIN val.v : JsonSafe(val.v[k])
  ELSE IF val.t = "arr"
    THEN \A i \in 1..Len(val.v) : val.v[i].t # "undefined" /\ JsonSafe(val.v[i])
  ELSE val.t # "nonfinite"
ValidStoreDocument(doc) ==
  /\ JsGet(doc, "version") = JsNum(1)
  /\ JsGet(doc, "items").t = "arr"
  /\ JsGet(doc, "proposals").t = "arr"
  /\ JsGet(doc, "revision").t = "num"
  /\ JsonSafe(doc)
SameFields(a, b) ==
  \A k \in DOMAIN a.v \cup DOMAIN b.v : JsGet(a, k) = JsGet(b, k)
SameRecords(as, bs) ==
  Len(as) = Len(bs) /\ \A i \in 1..Len(as) : SameFields(as[i], bs[i])
C11_RoundTrip ==
  \A w, q \in Callers :
    (pc[w] = "written" /\ pc[q] = "loaded" /\ ValidStoreDocument(mem[w]))
      => /\ SameRecords(JsGet(mem[w], "items").v, mem[q].items)
         /\ SameRecords(JsGet(mem[w], "proposals").v, mem[q].proposals)
         /\ mem[q].revision = JsGet(mem[w], "revision")

\* a written store whose records carry undefined fields has been loaded back
C11_Witness ==
  \E w, q \in Callers :
    /\ pc[w] = "written" /\ pc[q] = "loaded" /\ ValidStoreDocument(mem[w])
    /\ Len(mem[q].items) = MaxInitItems
    /\ Len(mem[q].proposals) = 1
    /\ JsGet(mem[w], "revision").v > 0
    /\ \E i \in 1..Len(mem[q].items) :
         /\ "lastUsedAt" \in DOMAIN JsGet(mem[w], "items").v[i].v
         /\ "lastUsedAt" \notin DOMAIN mem[q].items[i].v

\* C12: a call on a missing target (memory_pin with an id no item has,
\* memory_approve_proposal with an id no proposal has or with a proposal that
\* is already decided) ends without error, reports a message, and leaves the
\* store file (revision, items, proposals) and the archive as they were.
Seen(p) == loadStore(snap[p].store)
MissingTarget(p) ==
  \/ op[p] = "pin" /\ findIndex(Seen(p).items, arg[p].target) = 0
  \/ /\ op[p] \in {"approve", "reject"}
     /\ IF findIndex(Seen(p).proposals, arg[p].target) = 0 THEN TRUE
        ELSE Seen(p).proposals[findIndex(Seen(p).proposals, arg[p].target)].status
               # "pending"
NoOpMessages == {"Item not found", "Proposal not found", "Proposal is already decided"}
C12_MissingTargetNoOp ==
  [][\A p \in Callers :
       (pc[p] = "release" /\ pc'[p] \in {"done", "failed"} /\ MissingTarget(p))
         => /\ pc'[p] = "done" /\ err[p] = "none"
            /\ res[p].msg \in NoOpMessages
            /\ ~updated[p] /\ tmpFile[p] = NoFile
            /\ storeFile' = snap[p].store
            /\ archiveFile' = snap[p].archive]_vars

\* a pin of an unknown id is about to return while the store holds items
C12_Witness ==
  \E p \in Callers :
    /\ pc[p] = "release" /\ op[p] = "pin" /\ res[p].msg = "Item not found"
    /\ storeFile.kind = "json" /\ Len(storeFile.items) > 0

\* C13: a persisted proposal keeps its place and id; its status changes only
\* from pending to approved or rejected, by a call of memory_approve_proposal
\* with that action; once it is approved or rejected no field of it changes.
ProposalsOf(file) == IF file.kind = "json" THEN file.proposals ELSE <<>>
C13_DecidedIsFinal ==
  [][\A i \in 1..Len(ProposalsOf(storeFile)) :
       LET old == ProposalsOf(storeFile)[i]
           new == ProposalsOf(storeFile')[i]
       IN /\ i <= Len(ProposalsOf(storeFile'))
          /\ new.id = old.id
          /\ old.status # "pending" => new = old
          /\ new.status # old.status =>
               \E p \in Callers :
                 /\ pc[p] = "rename" /\ arg[p].target = old.id
                 /\ op[p] \in {"approve", "reject"}
                 /\ new.status = IF op[p] = "approve" THEN "approved" ELSE "rejected"]_vars

\* the proposal was rejected, and an approval of it with edits has loaded it
C13_Witness ==
  \E p \in Callers :
    /\ pc[p] = "release" /\ op[p] = "approve" /\ arg[p].target = 1 /\ arg[p].flag
    /\ Len(ProposalsOf(storeFile)) = 1
    /\ ProposalsOf(storeFile)[1].status = "rejected"
    /\ mem[p].proposals = ProposalsOf(storeFile)

\* C14: the records made from a proposal, in the active items and the archive
\* together, are at most one, and none once the proposal is rejected.  The
\* write that makes the proposal approved leaves it in its place in proposals
\* and brings exactly one record with proposalId = its id, under an id no
\* record had; when the call did not compact, that record is appended to the
\* items and nothing else changes in them.
ItemsOf(file) == IF file.kind = "json" THEN file.items ELSE <<>>
RecordsFrom(pid, store, archive) ==
  {r \in {ItemsOf(store)[i] : i \in 1..Len(ItemsOf(store))} :
     r.proposalId = pid}
  \cup {[k \in DOMAIN r \ {"archivedAt", "archivedReason"} |-> r[k]] :
          r \in {a \in {ItemsOf(archive)[i] : i \in 1..Len(ItemsOf(archive))} :
                   a.proposalId = pid}}
AllIds(store, archive) == IdsOf(ItemsOf(store)) \cup IdsOf(ItemsOf(archive))
C14_OneRecordPerProposal ==
  /\ [](\A i \in 1..Len(ProposalsOf(storeFile)) :
          LET prop == ProposalsOf(storeFile)[i]
              made == RecordsFrom(prop.id, storeFile, archiveFile)
          IN /\ Cardinality(made) <= 1
             /\ prop.status = "rejected" => made = {})
  /\ [][\A i \in 1..Len(ProposalsOf(storeFile)) :
          LET old == ProposalsOf(storeFile)[i]
              new == ProposalsOf(storeFile')[i]
          IN (old.status = "pending" /\ new.status = "approved")
               => \E p \in Callers :
                    /\ pc[p] = "rename"
                    /\ Len(ProposalsOf(storeFile')) = Len(ProposalsOf(storeFile))
                    /\ \E r \in RecordsFrom(old.id, storeFile', archiveFile') :
                         /\ RecordsFrom(old.id, storeFile', archiveFile') = {r}
                         /\ r.id \notin AllIds(snap[p].store, snap[p].archive)
                         /\ r.source = "proposal"
                         /\ archiveFile' = snap[p].archive
                              => ItemsOf(storeFile') = Append(ItemsOf(storeFile), r)]_vars

\* two approvals of the same proposal have run; one record came of them
C14_Witness ==
  \E p \in Callers :
    /\ pc[p] = "release" /\ op[p] = "approve" /\ arg[p].target = 1
    /\ res[p].msg = "Proposal is already decided"
    /\ ProposalsOf(storeFile)[1].status = "approved"
    /\ Cardinality(RecordsFrom(1, storeFile, archiveFile)) = 1

\* C20: when a memory_save or an approval that wrote returns, the store file
\* holds at most CONFIG.autoCompact.maxItems items, whatever it held before.
C20_BoundedAfterAdd ==
  [][\A p \in Callers :
       (pc[p] = "release" /\ pc'[p] = "done" /\ updated[p]
          /\ op[p] \in {"save", "approve"})
         => Len(ItemsOf(storeFile')) <= MaxItemsCfg]_vars

\* an approval is about to return on a store that held more than maxItems
\* items when the call got the lock
C20_Witness ==
  \E p \in Callers :
    /\ pc[p] = "release" /\ op[p] = "approve" /\ updated[p]
    /\ Len(ItemsOf(snap[p].store)) > MaxItemsCfg
    /\ Len(ItemsOf(storeFile)) = MaxItemsCfg

\* What a compaction run (a step of SpecCompact by caller p) did: the items
\* before and after, and the ids of the entries it added to the archive.
RunBy(p) == pc[p] = "mutate" /\ calls' = calls + 1
ArchivedBy == {ItemsOf(archiveFile')[i].id :
                 i \in (Len(ItemsOf(archiveFile)) + 1)..Len(ItemsOf(archiveFile'))}
\* the age key as the claim states it: lastUsedAt if present, else updatedAt,
\* else createdAt
AgeKey(item) ==
  IF item.lastUsedAt # 0 THEN item.lastUsedAt
  ELSE IF item.updatedAt # 0 THEN item.updatedAt ELSE item.createdAt
DistinctAges(items) ==
  \A i, j \in 1..Len(items) : i # j => AgeKey(items[i]) # AgeKey(items[j])

\* C16: a compaction that archives k records of a store whose records have
\* distinct age keys archives exactly the k records with the smallest keys,
\* pinned or not, and none of them stays active.
C16_EvictsOldest ==
  [][\A p \in Callers :
       (RunBy(p) /\ res'[p].archived > 0 /\ DistinctAges(mem[p].items))
         => /\ Cardinality(ArchivedBy) = res'[p].archived
            /\ ArchivedBy \subseteq IdsOf(mem[p].items)
            /\ ArchivedBy \cap IdsOf(mem'[p].items) = {}
            /\ \A i, j \in 1..Len(mem[p].items) :
                 (mem[p].items[i].id \in ArchivedBy
                    /\ mem[p].items[j].id \notin ArchivedBy)
                   => AgeKey(mem[p].items[i]) < AgeKey(mem[p].items[j])]_vars

\* a pinned hook item whose age key is its updatedAt is in the archive while
\* an unpinned item that was created before it was touched is still active
C16_Witness ==
  /\ archiveFile.kind = "json"
  /\ \E i \in 1..Len(archiveFile.items), j \in 1..Len(mem[Writer].items) :
       /\ archiveFile.items[i].pinned /\ archiveFile.items[i].lastUsedAt = 0
       /\ ~mem[Writer].items[j].pinned
       /\ mem[Writer].items[j].source = "direct"
       /\ mem[Writer].items[j].createdAt > archiveFile.items[i].createdAt
       /\ mem[Writer].items[j].lastUsedAt > archiveFile.items[i].updatedAt

\* C17: with a threshold M >= 1 and N items, N above target = max(M - r, 0)
\* (r = 1 with a summary, else 0), a compaction archives exactly N - target
\* records and leaves exactly M items.  (autoCompactStore compacts when it is
\* enabled and N > M.)
C17_CompactionCounts ==
  [][\A p \in Callers :
       RunBy(p) =>
         LET M == IF op'[p] = "compact" /\ arg'[p].maxItems # 0
                    THEN arg'[p].maxItems ELSE MaxItemsCfg
             r == IF arg'[p].summary THEN 1 ELSE 0
             N == Len(mem[p].items)
             target == IF M - r > 0 THEN M - r ELSE 0
             compacts == IF op'[p] = "auto" THEN arg'[p].flag /\ N > M ELSE TRUE
         IN (M >= 1 /\ N > target /\ compacts)
              => /\ res'[p].archived = N - target
                 /\ Cardinality(ArchivedBy) = N - target
                 /\ Len(mem'[p].items) = M]_vars

\* autoCompactStore ran on a store of maxItems + 1 items: 2 archived, maxItems left
C17_Witness ==
  /\ calls = 1 /\ op[Writer] = "auto" /\ res[Writer].archived = 2
  /\ baseRev = MaxItemsCfg + 1
  /\ Len(mem[Writer].items) = MaxItemsCfg
  /\ Len(ItemsOf(archiveFile)) = 2

\* C18 (as claimed): a second memory_compact run with the same arguments right
\* after the first archives nothing and leaves items and archive as they are.
C18_CompactTwiceIsNoOp ==
  [][\A p \in Callers :
       (RunBy(p) /\ op[p] = "compact" /\ op'[p] = "compact" /\ arg'[p] = arg[p])
         => /\ res'[p].archived = 0
            /\ mem'[p].items = mem[p].items
            /\ archiveFile' = archiveFile]_vars

\* C19: autoCompactStore changes nothing (items, archive, archived = 0) when
\* the policy is disabled or the count is at most maxItems; a run that follows
\* an auto-compaction archives nothing.
C19_AutoCompactGuard ==
  [][\A p \in Callers :
       (RunBy(p) /\ op'[p] = "auto")
         => /\ (~arg'[p].flag \/ Len(mem[p].items) <= MaxItemsCfg)
                 => /\ res'[p].archived = 0
                    /\ mem'[p].items = mem[p].items
                    /\ archiveFile' = archiveFile
            /\ (op[p] = "auto" /\ res[p].archived > 0)
                 => /\ res'[p].archived = 0
                    /\ mem'[p].items = mem[p].items
                    /\ archiveFile' = archiveFile]_vars

\* an enabled autoCompactStore has run a second time, on the maxItems items the
\* first run left, and archived nothing
C19_Witness ==
  /\ calls = 2 /\ op[Writer] = "auto" /\ arg[Writer].flag
  /\ res[Writer].archived = 0
  /\ baseRev = MaxItemsCfg + 1
  /\ Len(mem[Writer].items) = MaxItemsCfg
  /\ archiveFile.kind = "json"
  /\ \A i \in 1..Len(archiveFile.items) : archiveFile.items[i].archivedReason = "auto"

\* C15 (as claimed): when a call that compacted returns normally, every record
\* that was active when it got the lock is either archived by it (an archive
\* entry with the record's fields and id, stamped with archivedAt and
\* archivedReason, and no longer active) or still active and not in the
\* archive.
Unstamped(entry) == [k \in DOMAIN entry \ {"archivedAt", "archivedReason"} |-> entry[k]]
NewEntries(p) ==
  {ItemsOf(archiveFile)[i] :
     i \in (Len(ItemsOf(snap[p].archive)) + 1)..Len(ItemsOf(archiveFile))}
C15_ArchivedXorActive ==
  [][\A p \in Callers :
       (pc[p] = "release" /\ pc'[p] = "done" /\ updated[p]
          /\ archiveFile # snap[p].archive)
         => \A i \in 1..Len(ItemsOf(snap[p].store)) :
              LET r == ItemsOf(snap[p].store)[i]
                  evicted == \E e \in NewEntries(p) : e.id = r.id
              IN IF evicted
                   THEN /\ \E e \in NewEntries(p) :
                             /\ Unstamped(e) = r
                             /\ {"archivedAt", "archivedReason"} \subseteq DOMAIN e
                        /\ r.id \notin IdsOf(ItemsOf(storeFile'))
                   ELSE /\ r \in {ItemsOf(storeFile')[j] : j \in 1..Len(ItemsOf(storeFile'))}
                        /\ r.id \notin IdsOf(ItemsOf(archiveFile'))]_vars

C22_SummaryRecord ==
  [][\A p \in Callers :
       /\ (RunBy(p) /\ arg'[p].summary /\ res'[p].archived > 0) =>
            LET k == res'[p].archived
                cap == SummaryMaxEntriesCfg
                shown == IF k < cap THEN k ELSE cap
                before == mem[p].items
                after == mem'[p].items
                added == {i \in 1..Len(after) : after[i].id \notin IdsOf(before)}
                evicted == {i \in 1..Len(before) : before[i].id \notin IdsOf(after)}
            IN /\ Cardinality(added) = 1
               /\ Len(after) = Len(before) - k + 1
               /\ Len(ItemsOf(archiveFile')) = Len(ItemsOf(archiveFile)) + k
               /\ \A n \in added :
                    LET lines == after[n].content.bulletLines
                        listed == {lines[i] : i \in 1..Len(lines)}
                    IN /\ ~after[n].pinned
                       /\ after[n].type = <<"n", "o", "t", "e">>
                       /\ after[n].id \notin IdsOf(ItemsOf(archiveFile'))
                       /\ after[n].content.archived = k
                       /\ Len(lines) = shown /\ Cardinality(listed) = shown
                       /\ listed \subseteq {before[i].id : i \in evicted}
                       /\ after[n].content.remaining = k - shown
                       /\ \A i, j \in evicted :
                            (before[i].id \in listed /\ before[j].id \notin listed)
                              => AgeKey(before[j]) <= AgeKey(before[i])
       /\ (pc[p] = "mutate" /\ err'[p] # "none") =>
            /\ IdsOf(mem'[p].items) \subseteq IdsOf(mem[p].items)
            /\ archiveFile' = archiveFile]_vars

\* a run archived three records of distinct ages, more than the summary
\* lists: the summary is the one active record, lists two and counts one more
C22_Witness ==
  /\ calls = 1 /\ res[Writer].archived = SummaryMaxEntriesCfg + 1
  /\ arg[Writer].summary
  /\ DistinctAges(ItemsOf(storeFile))
  /\ Len(mem[Writer].items) = 1
  /\ Len(mem[Writer].items[1].content.bulletLines) = SummaryMaxEntriesCfg
  /\ mem[Writer].items[1].content.remaining = 1

\* C23 (as claimed): every write of the store file carries a revision higher
\* than the one of the document it replaces, also when the call's load put a
\* fresh empty store in the place of that document.
C23_RevisionMonotone ==
  [][(storeFile' # storeFile /\ storeFile.kind = "json")
       => /\ storeFile'.kind = "json"
          /\ storeFile'.revision > storeFile.revision]_vars

\* C24: in every state of the store file the ids of its items are pairwise
\* distinct and so are the ids of its proposals; the write of a memory_save
\* raises the revision by 1 and brings one saved record under an id that no
\* record of the store or the archive had; after two saves with the same
\* input the two saved records have different ids and the revision is 2
\* higher than at the start.
DistinctIds(records) ==
  \A i, j \in 1..Len(records) : i # j => records[i].id # records[j].id
DirectIn(records) == SelectSeq(records, LAMBDA r : r.source = "direct")
C24_UniqueIds ==
  /\ [](/\ DistinctIds(ItemsOf(storeFile))
        /\ DistinctIds(ProposalsOf(storeFile))
        /\ (/\ calls = 2 /\ commits = 2
            /\ Len(DirectIn(ItemsOf(storeFile)))
                 + Len(DirectIn(ItemsOf(archiveFile))) = 2)
             => /\ Cardinality(IdsOf(DirectIn(ItemsOf(storeFile)))
                                 \cup IdsOf(DirectIn(ItemsOf(archiveFile)))) = 2
                /\ RevOnDisk = baseRev + 2)
  /\ [][\A p \in Callers :
          (pc[p] = "rename" /\ pc'[p] = "release" /\ op[p] = "save"
             /\ err'[p] = "none")
            => /\ RevisionOf(storeFile') = RevisionOf(storeFile) + 1
               /\ Cardinality(
                    (IdsOf(DirectIn(ItemsOf(storeFile')))
                       \cup IdsOf(DirectIn(ItemsOf(archiveFile'))))
                    \ AllIds(snap[p].store, snap[p].archive)) = 1]_vars

\* two saves with the same input have returned: two saved records under
\* different ids in the store file, the revision 2 higher than at the start
C24_Witness ==
  /\ calls = 2 /\ commits = 2
  /\ \A p \in Callers : pc[p] \in {"idle", "done"}
  /\ storeFile.kind = "json" /\ storeFile.revision = baseRev + 2
  /\ \E i, j \in 1..Len(storeFile.items) :
       /\ i # j
       /\ storeFile.items[i].source = "direct" /\ storeFile.items[j].source = "direct"
       /\ storeFile.items[i].type = storeFile.items[j].type
       /\ storeFile.items[i].id # storeFile.items[j].id

\* C25 (as claimed): a call reads and writes the archive only while it holds
\* the lock of its memory file, and the archive it writes is made from the
\* archive that is on disk at the time of the write: no other call has
\* written the archive since this call read it.
C25_ArchiveNotStale ==
  [][\A p \in Callers :
       /\ (pc[p] = "mutate" /\ pc'[p] = "archive")
            => lockFile[memoryFilePath(p)] = p
       /\ (pc[p] = "archive" /\ pc'[p] = "write")
            => /\ lockFile[memoryFilePath(p)] = p
               /\ archiveFile = snap[p].archive]_vars

\* C26: every resolution of the project root ends, without error, and its
\* result is: the projectRoot option when it is a string that is not blank;
\* else MEMORY_PROJECT_ROOT when it is set and not blank; else the deepest
\* directory on the way from the root to the working directory (that one
\* included) that holds a .git directory or file; else the working directory.
HasGit(a, d) == a.git[d] \in {"dir", "file"}
Given(str) == str.kind = "string" /\ ~(str.rel /\ str.dirs = <<>>)
Resolved(cwd, str) == IF str.rel THEN cwd \o str.dirs ELSE str.dirs
C26_RootPriority ==
  /\ [](\A p \in Callers :
          pc[p] = "resolved" =>
            LET a == arg[p] IN
              /\ err[p] = "none"
              /\ ~res[p].empty
              /\ res[p].dirs =
                   IF Given(a.projectRoot) THEN Resolved(a.cwd, a.projectRoot)
                   ELSE IF Given(a.envRoot) THEN Resolved(a.cwd, a.envRoot)
                   ELSE IF \E d \in 0..Len(a.cwd) : HasGit(a, d)
                     THEN SubSeq(a.cwd, 1,
                                 CHOOSE d \in 0..Len(a.cwd) :
                                   /\ HasGit(a, d)
                                   /\ \A e \in (d + 1)..Len(a.cwd) : ~HasGit(a, e))
                     ELSE a.cwd)
  /\ \A p \in Callers : pc[p] = "idle" ~> pc[p] = "resolved"

\* no option, no MEMORY_PROJECT_ROOT, .git in no directory up to the root:
\* the walk went all the way up and gave the working directory
C26_Witness ==
  \E p \in Callers :
    /\ pc[p] = "resolved"
    /\ arg[p].projectRoot.kind = "undefined" /\ arg[p].envRoot.kind = "undefined"
    /\ Len(arg[p].cwd) = MaxDepth
    /\ \A d \in 0..MaxDepth : arg[p].git[d] = "none"
    /\ attempts[p] = MaxDepth + 1
    /\ res[p] = AbsPath(arg[p].cwd)

\* What a call's write brought: the items and proposals of the new store file
\* under ids the old one did not have.
BroughtItems(p) ==
  {r \in {ItemsOf(storeFile')[i] : i \in 1..Len(ItemsOf(storeFile'))} :
     r.id \notin IdsOf(ItemsOf(storeFile)) /\ r.source # "auto-compact"}
BroughtProposals(p) ==
  {r \in {ProposalsOf(storeFile')[i] : i \in 1..Len(ProposalsOf(storeFile'))} :
     r.id \notin IdsOf(ProposalsOf(storeFile))}
Stores(p) == pc[p] = "rename" /\ pc'[p] = "release" /\ err'[p] = "none"
TypesIn(file) ==
  {ItemsOf(file)[i].type : i \in 1..Len(ItemsOf(file))}
  \cup {ProposalsOf(file)[i].type : i \in 1..Len(ProposalsOf(file))}

\* C27 (as claimed): every record and proposal in the store has a type of the
\* enumeration, and what memory_save and memory_propose store is the input
\* type when that is a member of the enumeration and note for every other
\* input.
KeptOrNote(type) ==
  IF type.given /\ type.text \in ALLOWED_TYPES THEN type.text
  ELSE <<"n", "o", "t", "e">>
C27_TypeKeptOrNote ==
  /\ [](TypesIn(storeFile) \subseteq ALLOWED_TYPES)
  /\ [][\A p \in Callers :
          (Stores(p) /\ op[p] \in {"save", "propose"})
            => \A r \in BroughtItems(p) \cup BroughtProposals(p) :
                 r.type = KeptOrNote(arg[p].type)]_vars

\* C27 (amended): every record and proposal in the store and the archive has
\* a type of the enumeration; what memory_save and memory_propose store is
\* the input type in lower case and trimmed when that is a member of the
\* enumeration, and note for every other input; an approval stores the type
\* of the proposal, in the proposal and the new record, or edits.type treated
\* likewise when it is given and not empty; no call is rejected for its type.
NormalizedOrNote(type) ==
  IF type.given /\ trim(toLowerCase(type.text)) \in ALLOWED_TYPES
    THEN trim(toLowerCase(type.text))
    ELSE <<"n", "o", "t", "e">>
C27_TypeNormalized ==
  /\ [](TypesIn(storeFile) \subseteq ALLOWED_TYPES)
  /\ [](\A i \in 1..Len(ItemsOf(archiveFile)) :
          ItemsOf(archiveFile)[i].type \in ALLOWED_TYPES)
  /\ [][\A p \in Callers :
          /\ (Stores(p) /\ op[p] = "save")
               => /\ Cardinality(BroughtItems(p)) = 1
                  /\ \A r \in BroughtItems(p) : r.type = NormalizedOrNote(arg[p].type)
          /\ (Stores(p) /\ op[p] = "propose")
               => /\ Cardinality(BroughtProposals(p)) = 1
                  /\ \A r \in BroughtProposals(p) : r.type = NormalizedOrNote(arg[p].type)
          /\ (Stores(p) /\ op[p] = "approve")
               => LET i == findIndex(ProposalsOf(storeFile), arg[p].target)
                      was == ProposalsOf(storeFile)[i].type
                      now == IF arg[p].type.given /\ arg[p].type.text # <<>>
                               THEN NormalizedOrNote(arg[p].type) ELSE was
                  IN /\ ProposalsOf(storeFile')[i].type = now
                     /\ Cardinality(BroughtItems(p)) = 1
                     /\ \A r \in BroughtItems(p) : r.type = now
          /\ (pc[p] = "release" /\ pc'[p] # "release") => pc'[p] = "done"]_vars

\* a save with type FACT has stored a record of type fact, and a save with
\* type bogus a record of type note
C27_Witness ==
  /\ storeFile.kind = "json"
  /\ \E i, j \in 1..Len(storeFile.items) :
       /\ storeFile.items[i].source = "direct" /\ storeFile.items[j].source = "direct"
       /\ storeFile.items[i].type = <<"f", "a", "c", "t">>
       /\ storeFile.items[j].type = <<"n", "o", "t", "e">>
  /\ commits = 2 /\ calls = 2

\* The tag a value of the tags array stands for: its text without the white
\* space around it, in lower case; the empty string for a value that counts
\* as false.
TagOf(val) ==
  IF truthy(val) THEN toLowerCase(trim(jsString(val))) ELSE <<>>

\* C28: normalizeTags returns at most 20 strings, pairwise distinct, none
\* empty, none with white space at an end or a capital letter in it; they are
\* the tags of the input in the order of their first occurrences (the first 20
\* of them), and normalizing the result returns the same list.  An argument
\* that is no array gives the empty list.
C28_NormalizeTags ==
  \A p \in Callers :
    pc[p] \in {"normalized", "again"} =>
      LET out == res[p]
          arr == IF arg[p].t = "arr" THEN arg[p].v ELSE <<>>
          tags == [i \in 1..Len(arr) |-> TagOf(arr[i])] \o <<>>
          first == [k \in 1..Len(out) |->
                      CHOOSE i \in 1..Len(tags) :
                        /\ tags[i] = out[k]
                        /\ \A j \in 1..(i - 1) : tags[j] # out[k]] \o <<>>
      IN /\ Len(out) <= 20
         /\ \A k, l \in 1..Len(out) : k # l => out[k] # out[l]
         /\ \A k \in 1..Len(out) :
              /\ out[k] # <<>>
              /\ out[k][1] \notin WhiteSpace
              /\ out[k][Len(out[k])] \notin WhiteSpace
              /\ \A c \in 1..Len(out[k]) :
                   \A u \in 1..Len(UpperCase) : out[k][c] # UpperCase[u]
              /\ \E i \in 1..Len(tags) : tags[i] = out[k]
         /\ \A k \in 1..(Len(out) - 1) : first[k] < first[k + 1]
         /\ \A i \in 1..Len(tags) :
              tags[i] # <<>> =>
                \/ \E k \in 1..Len(out) : out[k] = tags[i]
                \/ Len(out) = 20 /\ first[20] < i
         /\ pc[p] = "again" => mem[p] = out

\* normalizeTags has run twice on an array that holds a value that counts as
\* false, the same tag twice and more than 20 different tags
C28_Witness ==
  \E p \in Callers :
    /\ pc[p] = "again"
    /\ arg[p].t = "arr"
    /\ Len(res[p]) = 20
    /\ \E i \in 1..Len(arg[p].v) : ~truthy(arg[p].v[i])
    /\ \E h, j \in 1..Len(arg[p].v) :
         /\ h < j
         /\ arg[p].v[h] # arg[p].v[j]
         /\ TagOf(arg[p].v[h]) # <<>>
         /\ TagOf(arg[p].v[h]) = TagOf(arg[p].v[j])
    /\ \E i \in 1..Len(arg[p].v) :
         /\ TagOf(arg[p].v[i]) # <<>>
         /\ \A k \in 1..20 : res[p][k] # TagOf(arg[p].v[i])

\* C29: a cursor loaded for a session id other than the stored one has
\* lastLineIndex -1 and the stored itemHashes; loaded for the stored session
\* id it has the stored lastLineIndex and itemHashes; loaded from a file that
\* is missing or cannot be read or parsed it has lastLineIndex -1 and no
\* hashes.  A field the stored object does not have counts as -1 and as no
\* hashes.
Stored(key, fallback) ==
  IF key \in DOMAIN storeFile.tree.v /\ storeFile.tree.v[key].t # "null"
    THEN storeFile.tree.v[key] ELSE fallback
C29_LoadCursor ==
  \A p \in Callers :
    pc[p] = "loaded" =>
      LET unreadable == \/ raw[p] = "ioerror"
                        \/ storeFile.kind \in {"missing", "garbage", "partial"}
                        \/ storeFile.tree.t = "null"
          stored == ~unreadable /\ storeFile.tree.t = "obj"
      IN /\ unreadable => /\ res[p].lastLineIndex = JsNum(-1)
                          /\ res[p].itemHashes = JsArr(<<>>)
         /\ (stored /\ Stored("sessionId", JsNull) # JsStr(arg[p]))
              => /\ res[p].lastLineIndex = JsNum(-1)
                 /\ res[p].itemHashes = Stored("itemHashes", JsArr(<<>>))
         /\ (stored /\ Stored("sessionId", JsNull) = JsStr(arg[p]))
              => /\ res[p].lastLineIndex = Stored("lastLineIndex", JsNum(-1))
                 /\ res[p].itemHashes = Stored("itemHashes", JsArr(<<>>))
         /\ (~unreadable /\ ~stored)
              => /\ res[p].lastLineIndex = JsNum(-1)
                 /\ res[p].itemHashes = JsArr(<<>>)

\* a second hook run, of another session, has loaded the cursor the first run
\* saved with a line index above -1 and with hashes
C29_Witness ==
  \E p \in Callers :
    /\ pc[p] = "loaded"
    /\ calls = 2
    /\ raw[p] = "text"
    /\ storeFile.tree.t = "obj"
    /\ storeFile.tree.v.updatedAt # JsStr(<<"0">>)
    /\ storeFile.tree.v.sessionId # JsStr(arg[p])
    /\ storeFile.tree.v.lastLineIndex = JsNum(3)
    /\ storeFile.tree.v.itemHashes.v # <<>>
    /\ res[p].itemHashes = storeFile.tree.v.itemHashes

\* C30: every acquireLock call ends; it ends with the handle of a lock file it
\* has just created, or with the timeout error after the budget of 2500 ms is
\* used up; it has made at least one attempt by then, and no attempt starts
\* at an elapsed time of 2500 ms or more.
C30_AcquireTerminates ==
  /\ \A p \in Callers : (pc[p] = "acquire") ~> (pc[p] \in {"load", "failed"})
  /\ [][\A p \in Callers :
          /\ (pc[p] = "acquire" /\ pc'[p] # "acquire")
               => \/ /\ pc'[p] = "load"
                     /\ lockFile = NoCaller /\ lockFile' = p
                     /\ attempts'[p] >= 1
                  \/ /\ pc'[p] = "failed" /\ err'[p] = "timeout"
                     /\ started[p] >= 2500
                     /\ attempts[p] >= 1
          /\ attempts'[p] > attempts[p] => started[p] < 2500]_vars

\* a call has ended with the timeout error behind a holder that got the lock
\* at its first attempt and still has it
C30_Witness ==
  \E p, q \in Callers :
    /\ pc[p] = "failed" /\ err[p] = "timeout"
    /\ pc[q] = "load" /\ lockFile = q /\ attempts[q] = 1

\* C31: the retry delay of an acquireLock call is 50 ms at its start; after
\* each failed attempt it is min(250, floor(delay * 1.25)), which is never
\* below the delay before, above it as long as that was under 250, and never
\* above 250.
C31_RetryDelays ==
  [][\A p \in Callers :
       /\ (pc[p] # "acquire" /\ pc'[p] = "acquire") => delay'[p] = 50
       /\ (pc[p] = "acquire" /\ pc'[p] = "acquire" /\ attempts'[p] > attempts[p])
            => /\ delay'[p] = IF (delay[p] * 5) \div 4 < 250
                                THEN (delay[p] * 5) \div 4 ELSE 250
               /\ delay'[p] >= delay[p]
               /\ delay[p] < 250 => delay'[p] > delay[p]
               /\ delay'[p] <= 250]_vars

\* a call still waiting after ten failed attempts, its delay at the cap
C31_Witness ==
  \E p \in Callers :
    pc[p] = "acquire" /\ attempts[p] >= 10 /\ delay[p] = 250 /\ started[p] < 2500

\* C32: without crashes the lock file exists only while a withStore call
\* holds the lock (is between acquireLock's return and releaseLock); an
\* attempt that returns no handle leaves no lock file of its own.
C32_LockFileOnlyWhileHeld ==
  /\ [](lockFile # NoCaller => pc[lockFile] \in Holding)
  /\ [][\A p \in Callers :
          (pc[p] = "acquire" /\ pc'[p] # "load") => lockFile' = lockFile]_vars

\* C33: no record is lost: a record that is in the store file or in the
\* archive file is in one of them after every step, also a step that is a
\* crash or a failed write of a save or of a compaction.
C33_NoRecordLost ==
  [][ItemIds(storeFile) \cup ItemIds(archiveFile)
       \subseteq ItemIds(storeFile') \cup ItemIds(archiveFile')]_vars

\* C34: no record is in two places: whenever no call is between acquireLock
\* and releaseLock (also after a crash, and after a call that failed), no id
\* is both in the items of the store file and in the archive, and no id occurs
\* twice in the archive.
C34_NoRecordTwice ==
  (\A p \in Callers : pc[p] \notin Holding)
    => /\ ItemIds(storeFile) \cap ItemIds(archiveFile) = {}
       /\ \A i, j \in 1..Len(ItemsOf(archiveFile)) :
            i # j => ItemsOf(archiveFile)[i].id # ItemsOf(archiveFile)[j].id

\* C35: the record a memory_save or an approval adds is among the active items
\* of the store file that the same call persists: its own auto-compaction
\* does not move it to the archive, however the calls interleave.
C35_SavedStaysActive ==
  [][\A p \in Callers :
       (/\ pc[p] = "rename" /\ pc'[p] = "release"
        /\ \/ op[p] = "save"
           \/ op[p] = "approve" /\ res[p].msg = "Approved")
         => \E i \in 1..Len(ItemsOf(storeFile')) :
              LET r == ItemsOf(storeFile')[i] IN
                /\ r.createdAt = createdAt[p]
                /\ r.source \in {"direct", "proposal"}
                /\ r.id \notin AllIds(snap[p].store, snap[p].archive)]_vars

\* C36: when a call that added records through withStore returns (a
\* memory_save, an approval, a hook run), the store file holds at most
\* CONFIG.autoCompact.maxItems items.
C36_BoundedAfterAnyAdd ==
  [][\A p \in Callers :
       (pc[p] = "release" /\ pc'[p] \notin {"release", "failed"} /\ updated[p]
          /\ op[p] \in {"save", "approve", "hook"})
         => Len(ItemsOf(storeFile')) <= MaxItemsCfg]_vars

\* C37: the cursor file changes only in the saveCursor of a hook run whose
\* withStore call, if it made one, returned without an error and left every
\* title it was to save with an item of the store that resembles it; a run
\* whose withStore call throws leaves the cursor file as it is.
C37_CursorAfterStore ==
  /\ [][archiveFile' # archiveFile =>
          \E p \in Callers :
            /\ pc[p] = "cursor" /\ pc'[p] = "done"
            /\ err[p] = "none"
            /\ lockFile # p
            /\ \A k \in 1..Len(arg[p].toSave) :
                 \E i \in 1..Len(ItemsOf(storeFile)) :
                   toLowerCase(titleOf(ItemsOf(storeFile)[i]))
                     = toLowerCase(arg[p].toSave[k])]_vars
  /\ [][\A p \in Callers :
          (pc'[p] = "failed" \/ (pc[p] = "failed" /\ pc'[p] # "failed"))
            => archiveFile' = archiveFile]_vars

\* a run whose withStore call wrote its records is about to advance the
\* cursor, after an earlier run gave up and left no cursor file
C37_Witness ==
  \E p \in Callers :
    /\ pc[p] = "cursor" /\ arg[p].toSave # <<>> /\ updated[p]
    /\ archiveFile = NoFile
    /\ calls >= 2

\* C38: a withStore call whose writeFn returns true on a document that
\* loadStore accepted returns without an error, and the store file then holds
\* that document with its revision (0 when it has none) raised by one.
C38_AcceptedIsWritable ==
  [][\A p \in Callers :
       (pc[p] = "mutate" /\ pc'[p] = "release" /\ raw[p] = "text")
         => /\ err'[p] = "none"
            /\ storeFile'.kind = "text"
            /\ JsGet(storeFile'.tree, "revision")
                 = JsNum((IF JsGet(snap[p].store.tree, "revision").t = "num"
                            THEN JsGet(snap[p].store.tree, "revision").v ELSE 0) + 1)
            /\ JsGet(storeFile'.tree, "items") = JsGet(snap[p].store.tree, "items")]_vars
====
